---- MODULE Spec2Model ----
(***************************************************************************)
(* State-machine model of two rules of the repository:                     *)
(*   - valid-rule-meta         (eslint-plugin-internal/src/rules)          *)
(*   - consistent-type-imports (three strategies selected by `prefer`)     *)
(* Each rule is a set of visitor callbacks over a syntax tree plus a       *)
(* Program:exit callback.  A visit is one action; the visited node is the  *)
(* action's input.                                                         *)
(*                                                                         *)
(* Identifiers are named by their binding: two bindings never share a      *)
(* name (programs are taken up to renaming of shadowed bindings), so scope *)
(* resolution of an identifier is a lookup of its name.                    *)
(***************************************************************************)
EXTENDS Integers, Sequences, FiniteSets, TLC

\* ------------------------------------------------------------------ bounds
MaxMetaProps == 2      \* written elements of a meta object literal
MaxDescProps == 1      \* written elements of a report descriptor literal
MaxVisits == 3         \* ObjectExpression / CallExpression visits per file
MaxNamed == 2          \* named specifiers between the braces of an import
MaxRefs == 2           \* references of an imported binding (classification)
MaxDecls == 2          \* import declarations / import types per file
MaxCombineDecls == 3   \* the same, under `type-imports-combine`
MaxCombineNamed == 1   \* named specifiers of an import, under the same
MaxNesting == 1        \* conditional expressions nested in a flattened one
MaxStack == 6          \* nested calls of flattenExpressions the stack holds
MaxIterProps == 2      \* written elements of an object literal iterated
MaxExtractNamed == 4   \* named specifiers of an import whose type-only ones
                       \* are extracted
MaxOptions == 2        \* entries of an array of the rule's options

\* ------------------------------------------------------- generic helpers
null == [type |-> "null"]

RECURSIVE Concat(_)
Concat(seqs) == IF seqs = <<>> THEN <<>> ELSE Head(seqs) \o Concat(Tail(seqs))

SetMax(S) == CHOOSE x \in S : \A y \in S : y <= x

\* The elements of a sequence
Elements(seq) == {seq[i] : i \in DOMAIN seq}

\* ------------------------------------------------------------ syntax tree
\* `loc` is the source position of a node (its path from a visited node or
\* from a declaration); two nodes are the same node iff they are equal.
Identifier(name, loc) == [type |-> "Identifier", name |-> name, loc |-> loc]
StringLiteral(s) == [type |-> "Literal", value |-> [tag |-> "string", str |-> s]]
BooleanLiteral(b) == [type |-> "Literal", value |-> [tag |-> "boolean", bool |-> b]]
NullLiteral == [type |-> "Literal", value |-> [tag |-> "null"]]
OpaqueExpression == [type |-> "ArrayExpression"]
FunctionExpression(params) == [type |-> "FunctionExpression", params |-> params]
ArrowFunctionExpression(params) ==
    [type |-> "ArrowFunctionExpression", params |-> params]
ConditionalExpression(c, a) ==
    [type |-> "ConditionalExpression", consequent |-> c, alternate |-> a]
ObjectExpression(props) == [type |-> "ObjectExpression", properties |-> props]
Property(name, value, loc) ==
    [type |-> "Property", key |-> Identifier(name, loc), computed |-> FALSE,
     value |-> value, loc |-> loc]
ComputedProperty(name, value, loc) ==
    [type |-> "Property", key |-> Identifier(name, loc), computed |-> TRUE,
     value |-> value, loc |-> loc]
MethodDefinition(name, loc) ==
    [type |-> "MethodDefinition", key |-> Identifier(name, loc), loc |-> loc]
SpreadElement(argument, loc) ==
    [type |-> "SpreadElement", argument |-> argument, loc |-> loc]
MemberExpression(object, property) ==
    [type |-> "MemberExpression", object |-> object, property |-> property,
     computed |-> FALSE]
ComputedMemberExpression(object, property) ==
    [type |-> "MemberExpression", object |-> object, property |-> property,
     computed |-> TRUE]
CallExpressionNode(callee, arguments) ==
    [type |-> "CallExpression", callee |-> callee, arguments |-> arguments]

\* ------------------------------------------------- scope (binding resolver)
\* Location of the declaration of binding number k.
DeclLoc(k) == <<0, k>>
FunctionValue == FunctionExpression(<<>>)

\* The definition of a variable by a declarator: `id` is what the
\* declarator binds, `declarators` how many its declaration has.
Declarator(name, k, kind, id, init, declarators) ==
    [type |-> "Variable", name |-> Identifier(name, DeclLoc(k)),
     parent |-> [kind |-> kind, declarators |-> declarators],
     node |-> [id |-> id, init |-> init]]
VariableDef(name, k, kind, init) ==
    Declarator(name, k, kind, Identifier(name, DeclLoc(k)), init, 1)
DestructuredDef(name, k, kind, init) ==
    Declarator(name, k, kind, [type |-> "ObjectPattern"], init, 1)
SecondDeclaratorDef(name, k, kind, init) ==
    Declarator(name, k, kind, Identifier(name, DeclLoc(k)), init, 2)
ParameterDef(name, k) ==
    [type |-> "Parameter", name |-> Identifier(name, DeclLoc(k))]
ImportBindingDef(name, k) ==
    [type |-> "ImportBinding", name |-> Identifier(name, DeclLoc(k))]

\* The bindings of the analysed file, by name.  A name that is not in the
\* table is not declared in the file (findVariable gives null).
\*   create(context) {..}                      the rule's context parameter
\*   function helper(ctx) {..}                 another function's parameter
\*   import importedMeta from '..'             not a Variable definition
\*   const fixableMeta = { fixable: 'code' }
\*   const suggestMeta = { hasSuggestions: true }
\*   let letMeta = { fixable: 'code' }         not const
\*   const maybeMeta = c ? { fixable: 'code' } : ruleMeta
\*   const withFix = { fix() {} }
\*   const maybeFix = c ? { fix() {} } : reportObject
\*   const bothKeys = c ? { fix() {} } : { suggest: [] }
\*   const uninit;                             (declare const) no initializer
\*   var twice = {..}; var twice = {..}        two definitions
\*   const alias = fixableMeta
\*   const { picked } = { fixable: 'code' }    bound by a pattern
\*   const first = 1, second = { fixable: 'code' }
\*   const selfRef = selfRef
\*   const cycleA = cycleB; const cycleB = cycleA
ScopeVariables ==
    [context |-> [defs |-> <<ParameterDef("context", 1)>>],
     ctx |-> [defs |-> <<ParameterDef("ctx", 2)>>],
     importedMeta |-> [defs |-> <<ImportBindingDef("importedMeta", 3)>>],
     fixableMeta |-> [defs |-> <<VariableDef("fixableMeta", 4, "const",
         ObjectExpression(<<Property("fixable", StringLiteral("code"),
                                     <<0, 4, 1>>)>>))>>],
     suggestMeta |-> [defs |-> <<VariableDef("suggestMeta", 5, "const",
         ObjectExpression(<<Property("hasSuggestions", BooleanLiteral(TRUE),
                                     <<0, 5, 1>>)>>))>>],
     letMeta |-> [defs |-> <<VariableDef("letMeta", 6, "let",
         ObjectExpression(<<Property("fixable", StringLiteral("code"),
                                     <<0, 6, 1>>)>>))>>],
     maybeMeta |-> [defs |-> <<VariableDef("maybeMeta", 7, "const",
         ConditionalExpression(
             ObjectExpression(<<Property("fixable", StringLiteral("code"),
                                         <<0, 7, 1>>)>>),
             Identifier("ruleMeta", <<0, 7, 2>>)))>>],
     withFix |-> [defs |-> <<VariableDef("withFix", 8, "const",
         ObjectExpression(<<Property("fix", FunctionValue, <<0, 8, 1>>)>>))>>],
     maybeFix |-> [defs |-> <<VariableDef("maybeFix", 9, "const",
         ConditionalExpression(
             ObjectExpression(<<Property("fix", FunctionValue, <<0, 9, 1>>)>>),
             Identifier("reportObject", <<0, 9, 2>>)))>>],
     bothKeys |-> [defs |-> <<VariableDef("bothKeys", 10, "const",
         ConditionalExpression(
             ObjectExpression(<<Property("fix", FunctionValue, <<0, 10, 1>>)>>),
             ObjectExpression(<<Property("suggest", OpaqueExpression,
                                         <<0, 10, 2>>)>>)))>>],
     uninit |-> [defs |-> <<VariableDef("uninit", 11, "const", null)>>],
     twice |-> [defs |-> <<VariableDef("twice", 12, "var",
                               ObjectExpression(<<>>)),
                           VariableDef("twice", 13, "var",
                               ObjectExpression(<<>>))>>],
     alias |-> [defs |-> <<VariableDef("alias", 14, "const",
         Identifier("fixableMeta", <<0, 14, 1>>))>>],
     picked |-> [defs |-> <<DestructuredDef("picked", 15, "const",
         ObjectExpression(<<Property("fixable", StringLiteral("code"),
                                     <<0, 15, 1>>)>>))>>],
     second |-> [defs |-> <<SecondDeclaratorDef("second", 16, "const",
         ObjectExpression(<<Property("fixable", StringLiteral("code"),
                                     <<0, 16, 1>>)>>))>>],
     selfRef |-> [defs |-> <<VariableDef("selfRef", 17, "const",
         Identifier("selfRef", <<0, 17, 1>>))>>],
     cycleA |-> [defs |-> <<VariableDef("cycleA", 18, "const",
         Identifier("cycleB", <<0, 18, 1>>))>>],
     cycleB |-> [defs |-> <<VariableDef("cycleB", 19, "const",
         Identifier("cycleA", <<0, 19, 1>>))>>]]

\* ASTUtils.findVariable(context.getScope(), node)
findVariable(node) ==
    IF node.name \in DOMAIN ScopeVariables THEN ScopeVariables[node.name]
    ELSE null

\* ASTUtils.getPropertyName(prop), called without an initial scope: the name
\* of a non-computed identifier key; a computed identifier key is not
\* evaluated and gives no name.
NoName == [static |-> FALSE]
getPropertyName(prop) ==
    IF prop.computed THEN NoName
    ELSE [static |-> TRUE, name |-> prop.key.name]

IsNamed(prop, name) ==
    LET n == getPropertyName(prop) IN n.static /\ n.name = name

\* ===================================================== valid-rule-meta
\* function* flattenExpressions(node)
RECURSIVE flattenExpressions(_)
flattenExpressions(node) ==
    IF node.type = "Identifier" THEN
        LET variable == findVariable(node) IN
        IF /\ variable # null
           /\ Len(variable.defs) = 1
           /\ variable.defs[1].type = "Variable"
           /\ variable.defs[1].parent.kind = "const"
           /\ variable.defs[1].node.init # null
        THEN flattenExpressions(variable.defs[1].node.init)
        ELSE <<node>>
    ELSE IF node.type = "ConditionalExpression" THEN
        flattenExpressions(node.consequent) \o flattenExpressions(node.alternate)
    ELSE <<node>>

\* flattenExpressions one call at a time.  The initializer a call on an
\* identifier goes on with (lines 78-88), or null when it yields the node
\* (and a variant that does not ask for `const`)
InitializerOf_AnyKind(node) ==
    LET variable == findVariable(node) IN
    IF /\ variable # null
       /\ Len(variable.defs) = 1
       /\ variable.defs[1].type = "Variable"
       /\ variable.defs[1].node.init # null
    THEN variable.defs[1].node.init
    ELSE null
InitializerOf(node) ==
    LET variable == findVariable(node) IN
    IF /\ variable # null
       /\ Len(variable.defs) = 1
       /\ variable.defs[1].type = "Variable"
       /\ variable.defs[1].parent.kind = "const"
       /\ variable.defs[1].node.init # null
    THEN variable.defs[1].node.init
    ELSE null

\* function* iterateProperties(node): the sequence of yielded elements
\* (and a variant that yields the spread at every candidate that is no
\* object literal)
RECURSIVE iterateProperties_EachUnknown(_)
iterateProperties_EachUnknown(node) ==
    Concat([i \in 1..Len(node.properties) |->
        LET prop == node.properties[i] IN
        IF prop.type = "Property" \/ prop.type = "MethodDefinition"
        THEN <<prop>>
        ELSE
            LET exprs == flattenExpressions(prop.argument)
            IN  Concat([j \in 1..Len(exprs) |->
                    IF exprs[j].type = "ObjectExpression"
                    THEN iterateProperties_EachUnknown(exprs[j])
                    ELSE <<prop>>])])
RECURSIVE iterateProperties(_)
iterateProperties(node) ==
    Concat([i \in 1..Len(node.properties) |->
        LET prop == node.properties[i] IN
        IF prop.type = "Property" \/ prop.type = "MethodDefinition"
        THEN <<prop>>
        ELSE
            LET exprs == flattenExpressions(prop.argument)
                hasUnknown ==
                    \E j \in 1..Len(exprs) : exprs[j].type # "ObjectExpression"
            IN  Concat([j \in 1..Len(exprs) |->
                    IF exprs[j].type = "ObjectExpression"
                    THEN iterateProperties(exprs[j])
                    ELSE <<>>])
                \o (IF hasUnknown THEN <<prop>> ELSE <<>>)])

\* The last element of props that is a Property with the given static name
\* (the loops assign the variable again at every match), or null.
\* The first property with the name instead of the last
FirstNamedProperty(props, name) ==
    LET hits == {i \in 1..Len(props) :
                    props[i].type = "Property" /\ IsNamed(props[i], name)}
    IN  IF hits = {} THEN null
        ELSE props[CHOOSE i \in hits : \A j \in hits : i <= j]

LastNamedProperty(props, name) ==
    LET hits == {i \in 1..Len(props) :
                    props[i].type = "Property" /\ IsNamed(props[i], name)}
    IN  IF hits = {} THEN null ELSE props[SetMax(hits)]

\* The keys of the Properties of props that the descriptor loop pushes for
\* the given name, in iteration order.
RECURSIVE KeysNamed(_, _)
KeysNamed(props, name) ==
    IF props = <<>> THEN <<>>
    ELSE (IF Head(props).type = "Property" /\ IsNamed(Head(props), name)
          THEN <<Head(props).key>> ELSE <<>>)
         \o KeysNamed(Tail(props), name)

EmptyReport ==
    [suggestNodes |-> <<>>, fixNodes |-> <<>>, hasUnknown |-> FALSE,
     found |-> FALSE]

\* ObjectExpression(node): the rule object after the visit (and a variant
\* without the early return of lines 109-111)
ObjectExpressionHandler_NoEarlyReturn(ro, node) ==
    LET meta == LastNamedProperty(node.properties, "meta")
        create == LastNamedProperty(node.properties, "create")
    IN  IF \/ meta = null
           \/ create = null
           \/ meta.value.type # "ObjectExpression"
           \/ /\ create.value.type # "FunctionExpression"
              /\ create.value.type # "ArrowFunctionExpression"
           \/ Len(create.value.params) < 1
           \/ create.value.params[1].type # "Identifier"
        THEN ro
        ELSE [meta |-> meta.value, context |-> create.value.params[1],
              report |-> EmptyReport]
ObjectExpressionHandler(ro, node) ==
    IF ro # null THEN ro
    ELSE
        LET meta == LastNamedProperty(node.properties, "meta")
            create == LastNamedProperty(node.properties, "create")
        IN  IF \/ meta = null
               \/ create = null
               \/ meta.value.type # "ObjectExpression"
               \/ /\ create.value.type # "FunctionExpression"
                  /\ create.value.type # "ArrowFunctionExpression"
               \/ Len(create.value.params) < 1
            THEN ro
            ELSE
                LET context == create.value.params[1] IN
                IF context.type # "Identifier" THEN ro
                ELSE [meta |-> meta.value, context |-> context,
                      report |-> EmptyReport]

\* The loop over iterateProperties(descriptor) of CallExpression
CollectDescriptor(report, descriptor) ==
    LET props == iterateProperties(descriptor) IN
    [found |-> report.found,
     hasUnknown |-> report.hasUnknown
                    \/ \E i \in 1..Len(props) : props[i].type # "Property",
     suggestNodes |-> report.suggestNodes \o KeysNamed(props, "suggest"),
     fixNodes |-> report.fixNodes \o KeysNamed(props, "fix")]

\* Whether the call is `<identifier>.report(<one argument>)` on the variable
\* declared by the create function's first parameter
IsReportCall(ro, node) ==
    /\ ro # null
    /\ node.callee.type = "MemberExpression"
    /\ node.callee.object.type = "Identifier"
    /\ node.callee.property.type = "Identifier"
    /\ node.callee.property.name = "report"
    /\ Len(node.arguments) = 1
    /\ LET variable == findVariable(node.callee.object) IN
       /\ variable # null
       /\ \E i \in 1..Len(variable.defs) : variable.defs[i].name = ro.context

\* CallExpression(node): the rule object after the visit
CallExpressionHandler(ro, node) ==
    IF ~IsReportCall(ro, node) THEN ro
    ELSE
        LET found == [ro.report EXCEPT !.found = TRUE] IN
        IF node.arguments[1].type # "ObjectExpression"
        THEN [ro EXCEPT !.report = [found EXCEPT !.hasUnknown = TRUE]]
        ELSE [ro EXCEPT !.report = CollectDescriptor(found, node.arguments[1])]

\* reports(nodes, messageId)
reports(nodes, messageId) ==
    [i \in 1..Len(nodes) |-> [node |-> nodes[i], messageId |-> messageId]]

\* The first loop of Program:exit, over iterateProperties(meta)
MetaHasSpread_Never(meta) == FALSE
MetaHasSpread(meta) ==
    LET props == iterateProperties(meta) IN
    \E i \in 1..Len(props) : props[i].type = "SpreadElement"
MetaFixableProp(meta) == LastNamedProperty(iterateProperties(meta), "fixable")
MetaHasSuggestionsProp(meta) ==
    LastNamedProperty(iterateProperties(meta), "hasSuggestions")

\* ruleObject.report.fixNodes.length / suggestNodes.length as conditions
PassesFix_UnlessUnknown(report) ==
    Len(report.fixNodes) > 0 /\ ~report.hasUnknown
PassesFix(report) == Len(report.fixNodes) > 0
PassesSuggest(report) == Len(report.suggestNodes) > 0

\* `fixable` is the literal null or the identifier undefined
FixableIsUnset_NullOnly(value) ==
    value.type = "Literal" /\ value.value.tag = "null"
FixableIsUnset(value) ==
    \/ value.type = "Literal" /\ value.value.tag = "null"
    \/ value.type = "Identifier" /\ value.name = "undefined"

\* `fixable` is a literal whose value is a string
FixableIsString_Boolean(value) ==
    value.type = "Literal" /\ value.value.tag = "boolean"
FixableIsString(value) ==
    value.type = "Literal" /\ value.value.tag = "string"

\* `hasSuggestions` is a literal whose value is not true / is true
SuggestionsNotTrue_Inverted(value) ==
    value.type = "Literal" /\ value.value = BooleanLiteral(TRUE).value
SuggestionsNotTrue(value) ==
    value.type = "Literal" /\ value.value # BooleanLiteral(TRUE).value
SuggestionsIsTrue(value) ==
    value.type = "Literal" /\ value.value = BooleanLiteral(TRUE).value

\* context.report({ node: prop, messageId }) on a property of meta
reportProperty_AtKey(prop, messageId) ==
    <<[node |-> prop.key, messageId |-> messageId]>>
reportProperty(prop, messageId) ==
    <<[node |-> prop, messageId |-> messageId]>>

\* Program:exit, the `fix` half
\* The `fix` half with its two checks made independently of each other:
\* shouldBeFixable at every fix node unless meta has an unresolved spread,
\* shouldNotBeFixable at a `fixable` property whose value is a string.
FixableDiagnostics_Independent(ro) ==
    LET fixableProp == MetaFixableProp(ro.meta)
    IN  (IF PassesFix(ro.report) /\ ~MetaHasSpread(ro.meta)
         THEN reports(ro.report.fixNodes, "shouldBeFixable") ELSE <<>>)
        \o (IF fixableProp # null /\ FixableIsString(fixableProp.value)
            THEN reportProperty(fixableProp, "shouldNotBeFixable")
            ELSE <<>>)

FixableDiagnostics(ro) ==
    LET fixableProp == MetaFixableProp(ro.meta)
        hasSpread == MetaHasSpread(ro.meta)
    IN  IF PassesFix(ro.report) THEN
            IF hasSpread THEN <<>>
            ELSE IF fixableProp = null
            THEN reports(ro.report.fixNodes, "shouldBeFixable")
            ELSE IF FixableIsUnset(fixableProp.value)
            THEN reports(ro.report.fixNodes, "shouldBeFixable")
            ELSE <<>>
        ELSE IF ~ro.report.hasUnknown THEN
            IF fixableProp # null /\ FixableIsString(fixableProp.value)
            THEN reportProperty(fixableProp, "shouldNotBeFixable")
            ELSE <<>>
        ELSE <<>>

\* Program:exit, the `suggest` half
SuggestableDiagnostics(ro) ==
    LET hasSuggestionsProp == MetaHasSuggestionsProp(ro.meta)
        hasSpread == MetaHasSpread(ro.meta)
    IN  IF PassesSuggest(ro.report) THEN
            IF hasSpread THEN <<>>
            ELSE IF hasSuggestionsProp = null
            THEN reports(ro.report.suggestNodes, "shouldBeSuggestable")
            ELSE IF SuggestionsNotTrue(hasSuggestionsProp.value)
            THEN reports(ro.report.suggestNodes, "shouldBeSuggestable")
            ELSE <<>>
        ELSE IF ~ro.report.hasUnknown THEN
            IF /\ hasSuggestionsProp # null
               /\ SuggestionsIsTrue(hasSuggestionsProp.value)
            THEN reportProperty(hasSuggestionsProp, "shouldNotBeSuggestable")
            ELSE <<>>
        ELSE <<>>

\* 'Program:exit'(): everything the callback reports, in order
ProgramExitDiagnostics_NoFoundCheck(ro) ==
    IF ro = null THEN <<>>
    ELSE FixableDiagnostics(ro) \o SuggestableDiagnostics(ro)
ProgramExitDiagnostics(ro) ==
    IF ro = null THEN <<>>
    ELSE IF ~ro.report.found THEN <<>>
    ELSE FixableDiagnostics(ro) \o SuggestableDiagnostics(ro)

\* ------------------------------------------- inputs of valid-rule-meta
\* The elements a meta object literal is written with, at position loc.
MetaElements(loc) ==
    {Property("fixable", StringLiteral("code"), loc),
     Property("fixable", NullLiteral, loc),
     Property("fixable", Identifier("undefined", loc), loc),
     Property("hasSuggestions", BooleanLiteral(TRUE), loc),
     Property("hasSuggestions", BooleanLiteral(FALSE), loc),
     SpreadElement(Identifier("ruleMeta", loc), loc),
     SpreadElement(Identifier("fixableMeta", loc), loc),
     SpreadElement(Identifier("maybeMeta", loc), loc),
     SpreadElement(ConditionalExpression(
                       ObjectExpression(
                           <<Property("fixable", StringLiteral("code"),
                                      Append(loc, 1))>>),
                       ObjectExpression(
                           <<Property("fixable", NullLiteral,
                                      Append(loc, 2))>>)), loc)}

\* The elements a report descriptor literal is written with.
DescriptorElements(loc) ==
    {Property("fix", FunctionValue, loc),
     Property("suggest", OpaqueExpression, loc),
     ComputedProperty("fix", FunctionValue, loc),
     SpreadElement(Identifier("reportObject", loc), loc),
     SpreadElement(Identifier("bothKeys", loc), loc)}

\* The element sequences of length n written at position loc.
RECURSIVE MetaProperties(_, _)
MetaProperties(loc, n) ==
    IF n = 0 THEN {<<>>}
    ELSE {Append(props, element) :
             props \in MetaProperties(loc, n - 1),
             element \in MetaElements(Append(loc, n))}
RECURSIVE DescriptorProperties(_, _)
DescriptorProperties(loc, n) ==
    IF n = 0 THEN {<<>>}
    ELSE {Append(props, element) :
             props \in DescriptorProperties(loc, n - 1),
             element \in DescriptorElements(Append(loc, n))}

\* Object literals of at most MaxMetaProps / MaxDescProps elements.
MetaObjects(loc) ==
    {ObjectExpression(props) :
        props \in UNION {MetaProperties(loc, n) : n \in 0..MaxMetaProps}}
Descriptors(loc) ==
    {ObjectExpression(props) :
        props \in UNION {DescriptorProperties(loc, n) : n \in 0..MaxDescProps}}

\* The values written for `create`.  The parameter identifier of the first
\* two is the declaration of the binding `context`; the others do not give
\* a rule object.
RuleCreateValues ==
    {FunctionExpression(<<Identifier("context", DeclLoc(1))>>),
     ArrowFunctionExpression(<<Identifier("context", DeclLoc(1))>>)}
OtherCreateValues ==
    {FunctionExpression(<<>>),
     FunctionExpression(<<[type |-> "ObjectPattern"]>>),
     Identifier("create", DeclLoc(0))}

RuleObjectExpression(m, c, loc) ==
    ObjectExpression(<<Property("meta", m, Append(loc, 1)),
                       Property("create", c, Append(loc, 2))>>)

\* The object expressions a visit can meet at position loc: every meta
\* literal with a create function, and the shapes the handler rejects.
ObjectInputs(loc) ==
    {RuleObjectExpression(m, c, loc) :
        m \in MetaObjects(Append(loc, 1)), c \in RuleCreateValues}
    \cup {RuleObjectExpression(
              ObjectExpression(<<Property("fixable", StringLiteral("code"),
                                          <<Head(loc), 1, 1>>)>>), c, loc) :
              c \in OtherCreateValues}
    \cup {RuleObjectExpression(Identifier("importedMeta", Append(loc, 1)),
                               c, loc) : c \in RuleCreateValues}
    \cup {ObjectExpression(<<Property("meta", ObjectExpression(<<>>),
                                      Append(loc, 1))>>),
          ObjectExpression(<<SpreadElement(Identifier("base", loc),
                                           Append(loc, 1))>>),
          ObjectExpression(<<>>)}

\* The call expressions a visit can meet at position loc: every descriptor
\* passed to `context.report`, the calls the handler rejects, and a call of
\* `context[report]`, the member named by a variable `report`.
ReportCallee(loc) ==
    MemberExpression(Identifier("context", loc), Identifier("report", loc))
ComputedReportCallee(loc) ==
    ComputedMemberExpression(Identifier("context", loc),
                             Identifier("report", loc))
OtherCallees(loc) ==
    {MemberExpression(Identifier("ctx", loc), Identifier("report", loc)),
     MemberExpression(Identifier("rule", loc), Identifier("report", loc)),
     MemberExpression(Identifier("context", loc),
                      Identifier("getScope", loc)),
     MemberExpression([type |-> "ThisExpression"], Identifier("report", loc)),
     Identifier("report", loc)}
FixDescriptor(loc) ==
    ObjectExpression(<<Property("fix", FunctionValue, Append(loc, 1))>>)
CallInputs(loc) ==
    {CallExpressionNode(ReportCallee(loc), <<d>>) : d \in Descriptors(loc)}
    \cup {CallExpressionNode(ReportCallee(loc), a) :
             a \in {<<Identifier("descriptor", loc)>>, <<>>,
                    <<FixDescriptor(loc), FixDescriptor(loc)>>}}
    \cup {CallExpressionNode(c, <<FixDescriptor(loc)>>) :
             c \in OtherCallees(loc)}
    \cup {CallExpressionNode(ComputedReportCallee(loc),
                             <<FixDescriptor(loc)>>)}

\* ================================================ consistent-type-imports
\* --------------------------------------------- source text and its tokens
\* One piece of the text of an import declaration: a token or a comment.
\* `glue`: the piece follows the previous one without a space; `role` and
\* `idx` name the specifier the piece belongs to.
Piece(type, value, glue, role, idx) ==
    [type |-> type, value |-> value, glue |-> glue, role |-> role,
     idx |-> idx]

\* `A, B` of a named-import list; the first name is specifier number idx.
RECURSIVE NamedPieces(_, _)
NamedPieces(names, idx) ==
    IF names = <<>> THEN <<>>
    ELSE <<Piece("Identifier", Head(names), FALSE, "local", idx)>>
         \o (IF Len(names) > 1
             THEN <<Piece("Punctuator", ",", TRUE, "comma", idx)>>
             ELSE <<>>)
         \o NamedPieces(Tail(names), idx + 1)

\* The written form of a declaration.  shape: importKind, source (module
\* name), default / namespace (a specifier description or null), named (a
\* sequence of them), braces (whether `{...}` is written), comment (whether
\* a comment follows the first word after `import`).
HasClause(shape) ==
    shape.default # null \/ shape.namespace # null \/ shape.braces
DeclarationPieces(shape) ==
    LET nDefault == IF shape.default # null THEN 1 ELSE 0 IN
    <<Piece("Keyword", "import", FALSE, "import", 0)>>
    \o (IF shape.importKind = "type"
        THEN <<Piece("Identifier", "type", FALSE, "type", 0)>> ELSE <<>>)
    \o (IF shape.comment
        THEN <<Piece("Block", "/*c*/", FALSE, "comment", 0)>> ELSE <<>>)
    \o (IF shape.default # null
        THEN <<Piece("Identifier", shape.default.name, FALSE, "local", 1)>>
        ELSE <<>>)
    \o (IF shape.default # null /\ (shape.namespace # null \/ shape.braces)
        THEN <<Piece("Punctuator", ",", TRUE, "comma", 0)>> ELSE <<>>)
    \o (IF shape.namespace # null
        THEN <<Piece("Punctuator", "*", FALSE, "star", nDefault + 1),
               Piece("Identifier", "as", FALSE, "as", 0),
               Piece("Identifier", shape.namespace.name, FALSE, "local",
                     nDefault + 1)>>
        ELSE <<>>)
    \o (IF shape.braces
        THEN <<Piece("Punctuator", "{", FALSE, "open", 0)>>
             \o NamedPieces([i \in 1..Len(shape.named) |-> shape.named[i].name],
                            nDefault + 1)
             \o <<Piece("Punctuator", "}", Len(shape.named) > 0, "close", 0)>>
        ELSE <<>>)
    \o (IF HasClause(shape)
        THEN <<Piece("Identifier", "from", FALSE, "from", 0)>> ELSE <<>>)
    \o <<Piece("String", "'" \o shape.source \o "'", FALSE, "source", 0),
         Piece("Punctuator", ";", TRUE, "semi", 0)>>

\* The pieces placed in the text from offset pos on: each gets its range.
RECURSIVE Place(_, _)
Place(pieces, pos) ==
    IF pieces = <<>> THEN <<>>
    ELSE LET p == Head(pieces)
             end == pos + Len(p.value)
             rest == Tail(pieces)
         IN  <<[type |-> p.type, value |-> p.value, range |-> <<pos, end>>,
                role |-> p.role, idx |-> p.idx]>>
             \o (IF rest = <<>> THEN <<>>
                 ELSE Place(rest, IF Head(rest).glue THEN end ELSE end + 1))

PlacedWith(placed, role, idx) ==
    CHOOSE t \in {placed[i] : i \in DOMAIN placed} :
        t.role = role /\ t.idx = idx

\* The specifier node of description d, the idx-th specifier written
SpecifierNode(type, d, idx, placed) ==
    LET local == PlacedWith(placed, "local", idx) IN
    [type |-> type,
     local |-> [type |-> "Identifier", name |-> d.name, range |-> local.range],
     range |-> IF type = "ImportNamespaceSpecifier"
               THEN <<PlacedWith(placed, "star", idx).range[1], local.range[2]>>
               ELSE local.range,
     variable |-> [references |-> d.references]]

\* The ImportDeclaration node the parser gives for the written form of
\* shape at offset start, with the tokens and comments of its text.
ImportDeclaration(shape, start) ==
    LET placed == Place(DeclarationPieces(shape), start)
        nDefault == IF shape.default # null THEN 1 ELSE 0
        nNamespace == IF shape.namespace # null THEN 1 ELSE 0
    IN  [type |-> "ImportDeclaration",
         importKind |-> shape.importKind,
         source |-> [type |-> "Literal", value |-> shape.source,
                     range |-> PlacedWith(placed, "source", 0).range],
         specifiers |->
             (IF shape.default # null
              THEN <<SpecifierNode("ImportDefaultSpecifier", shape.default,
                                   1, placed)>>
              ELSE <<>>)
             \o (IF shape.namespace # null
                 THEN <<SpecifierNode("ImportNamespaceSpecifier",
                                      shape.namespace, nDefault + 1, placed)>>
                 ELSE <<>>)
             \o [i \in 1..Len(shape.named) |->
                    SpecifierNode("ImportSpecifier", shape.named[i],
                                  nDefault + nNamespace + i, placed)],
         range |-> <<start, placed[Len(placed)].range[2]>>,
         tokens |-> [i \in 1..Len(placed) |->
                        [type |-> placed[i].type, value |-> placed[i].value,
                         range |-> placed[i].range]]]

\* -------------------------------------------------- sourceCode (tokens)
IsComment(token) == token.type = "Block" \/ token.type = "Line"

\* The first element of tokens, in text order, that is in `matching`
FirstOf(tokens, matching) ==
    LET hits == {i \in DOMAIN tokens : tokens[i] \in matching} IN
    IF hits = {} THEN null
    ELSE tokens[CHOOSE i \in hits : \A j \in hits : i <= j]

TokensOf(node) == {node.tokens[i] : i \in DOMAIN node.tokens}

\* sourceCode.getFirstToken(node, filter): comments are skipped
getFirstToken(node, matching) ==
    FirstOf(node.tokens, {t \in matching : ~IsComment(t)})

\* sourceCode.getFirstTokenBetween(left, right, filter), inside node
getFirstTokenBetween(node, left, right, matching) ==
    FirstOf(node.tokens,
            {t \in matching : /\ ~IsComment(t)
                              /\ t.range[1] >= left.range[2]
                              /\ t.range[2] <= right.range[1]})

\* sourceCode.getTokenAfter(token, { includeComments: true }), inside node
getTokenOrCommentAfter(node, token) ==
    FirstOf(node.tokens, {t \in TokensOf(node) : t.range[1] >= token.range[2]})

\* isImportToken / isTypeToken, as the sets of the tokens they accept
ImportTokens(node) ==
    {t \in TokensOf(node) : t.type = "Keyword" /\ t.value = "import"}
TypeTokens(node) ==
    {t \in TokensOf(node) : t.type = "Identifier" /\ t.value = "type"}

\* ---------------------------------------------------------- the rule
isDefaultSpecifier(specifier) == specifier.type = "ImportDefaultSpecifier"
isNamespaceSpecifier(specifier) == specifier.type = "ImportNamespaceSpecifier"
isNamedSpecifier(specifier) == specifier.type = "ImportSpecifier"

\* The callback of references.every(...): whether the reference is safe for
\* a type-only import.  ref.parents is the chain ref.identifier.parent,
\* .parent.parent, ... up to the program.  (With a variant of the walk that
\* looks at the parent only.)
ReachesTypeQuery_ParentOnly(parents) ==
    parents # <<>> /\ Head(parents) = "TSTypeQuery"
RECURSIVE ReachesTypeQuery(_)
ReachesTypeQuery(parents) ==
    IF parents = <<>> THEN FALSE
    ELSE IF Head(parents) = "TSTypeQuery" THEN TRUE
    ELSE IF Head(parents) # "TSQualifiedName" THEN FALSE
    ELSE ReachesTypeQuery(Tail(parents))
IsTypeSafeReference(ref) ==
    IF ref.isValueReference THEN ReachesTypeQuery(ref.parents)
    ELSE ref.isTypeReference

onlyHasTypeReferences(variable) ==
    \A i \in DOMAIN variable.references :
        IsTypeSafeReference(variable.references[i])

\* context.getDeclaredVariables(specifier)
getDeclaredVariables(specifier) == <<specifier.variable>>

EmptyBuckets ==
    [typeSpecifiers |-> <<>>, valueSpecifiers |-> <<>>,
     unusedSpecifiers |-> <<>>]

\* One iteration of the loop of parseUsedKindSpecifierVariables
PushSpecifier_NoElse(buckets, specifier) ==
    LET variable == getDeclaredVariables(specifier)[1]
        unused == IF Len(variable.references) = 0
                  THEN Append(buckets.unusedSpecifiers, specifier)
                  ELSE buckets.unusedSpecifiers
    IN  IF onlyHasTypeReferences(variable)
        THEN [buckets EXCEPT !.unusedSpecifiers = unused,
                             !.typeSpecifiers = Append(@, specifier)]
        ELSE [buckets EXCEPT !.unusedSpecifiers = unused,
                             !.valueSpecifiers = Append(@, specifier)]
PushSpecifier(buckets, specifier) ==
    LET variable == getDeclaredVariables(specifier)[1] IN
    IF Len(variable.references) = 0
    THEN [buckets EXCEPT !.unusedSpecifiers = Append(@, specifier)]
    ELSE IF onlyHasTypeReferences(variable)
    THEN [buckets EXCEPT !.typeSpecifiers = Append(@, specifier)]
    ELSE [buckets EXCEPT !.valueSpecifiers = Append(@, specifier)]

RECURSIVE PushSpecifiers(_, _)
PushSpecifiers(buckets, specifiers) ==
    IF specifiers = <<>> THEN buckets
    ELSE PushSpecifiers(PushSpecifier(buckets, Head(specifiers)),
                        Tail(specifiers))

\* parseUsedKindSpecifierVariables(context, node)
parseUsedKindSpecifierVariables(node) ==
    PushSpecifiers(EmptyBuckets, node.specifiers)

\* fixer.removeRange(range)
removeRange(range) == [range |-> range, text |-> ""]

\* util.nullThrows failing: the fix function throws
Throws(message) == [throws |-> message]

\* fixToValueImport(fixer, node) of createPreferNoTypeImportsVisitor
fixToValueImport_ToEndOfType(node) ==
    LET importToken == getFirstToken(node, ImportTokens(node))
        typeToken == getFirstTokenBetween(node, importToken,
                         IF Len(node.specifiers) > 0
                         THEN node.specifiers[1].local ELSE node.source,
                         TypeTokens(node))
    IN  removeRange(<<typeToken.range[1], typeToken.range[2]>>)
fixToValueImport(node) ==
    LET importToken == getFirstToken(node, ImportTokens(node)) IN
    IF importToken = null THEN Throws("import")
    ELSE
        LET typeToken == getFirstTokenBetween(node, importToken,
                             IF Len(node.specifiers) > 0
                             THEN node.specifiers[1].local ELSE node.source,
                             TypeTokens(node))
        IN  IF typeToken = null THEN Throws("type")
            ELSE
                LET afterToken == getTokenOrCommentAfter(node, typeToken) IN
                IF afterToken = null THEN Throws("any token")
                ELSE removeRange(<<typeToken.range[1], afterToken.range[1]>>)

\* 'ImportDeclaration[importKind = "type"]'(node) of the no-type-imports
\* visitor: what it reports for a visited import declaration
NoTypeImportsSelector(node) == node.importKind = "type"
NoTypeImportsImportDeclaration(node) ==
    IF NoTypeImportsSelector(node)
    THEN <<[node |-> node, messageId |-> "valueOverType",
            fix |-> fixToValueImport(node)]>>
    ELSE <<>>

\* sourceImportsMap = {} is kept as the sequence of its own values in
\* insertion order (the order of Object.values for module names).  A lookup
\* sourceImportsMap[source] of a name the object inherits, such as
\* "constructor", finds the inherited value (the Object function), which has
\* no reportValueImports; `inherited` holds the typeOnlyNamedImport property
\* the handler may set on it.
InheritedKeys == {"constructor"}
SourceIndex(map, source) ==
    CHOOSE i \in DOMAIN map : map[i].source = source
HasSource(map, source) == \E i \in DOMAIN map : map[i].source = source

\* sourceImportsMap[source] ??= {...} of the type-imports visitor
WithSourceImports(map, source) ==
    IF HasSource(map, source) \/ source \in InheritedKeys THEN map
    ELSE Append(map, [source |-> source, reportValueImports |-> <<>>,
                      typeOnlyNamedImport |-> null])

\* The handler without the test of !sourceImports.typeOnlyNamedImport: every
\* type-only declaration of named specifiers takes the place of the last one.
TypeImportsImportDeclaration_Overwrite(map, inherited, node) ==
    LET source == node.source.value
        map1 == WithSourceImports(map, source)
        own == HasSource(map1, source)
        i == SourceIndex(map1, source)
        used == parseUsedKindSpecifierVariables(node)
    IN  IF node.importKind = "type" THEN
            IF \A j \in DOMAIN node.specifiers :
                   isNamedSpecifier(node.specifiers[j])
            THEN IF own
                 THEN [map |-> [map1 EXCEPT ![i].typeOnlyNamedImport = node],
                       inherited |-> inherited, threw |-> FALSE]
                 ELSE [map |-> map1,
                       inherited |-> [typeOnlyNamedImport |-> node],
                       threw |-> FALSE]
            ELSE [map |-> map1, inherited |-> inherited, threw |-> FALSE]
        ELSE IF Len(used.typeSpecifiers) > 0 THEN
            IF own
            THEN [map |-> [map1 EXCEPT ![i].reportValueImports =
                              Append(@, [node |-> node,
                                  typeSpecifiers |-> used.typeSpecifiers,
                                  valueSpecifiers |-> used.valueSpecifiers,
                                  unusedSpecifiers |-> used.unusedSpecifiers])],
                  inherited |-> inherited, threw |-> FALSE]
            ELSE [map |-> map1, inherited |-> inherited, threw |-> TRUE]
        ELSE [map |-> map1, inherited |-> inherited, threw |-> FALSE]

\* ImportDeclaration(node) of createPreferTypeImportsVisitor.  The result:
\* the map and the inherited value afterwards, and whether the handler threw
\* (reportValueImports.push on the inherited value is a TypeError).
TypeImportsImportDeclaration(map, inherited, node) ==
    LET source == node.source.value
        map1 == WithSourceImports(map, source)
        own == HasSource(map1, source)
        i == SourceIndex(map1, source)
        sourceImports == IF own THEN map1[i] ELSE inherited
        used == parseUsedKindSpecifierVariables(node)
    IN  IF node.importKind = "type" THEN
            IF /\ sourceImports.typeOnlyNamedImport = null
               /\ \A j \in DOMAIN node.specifiers :
                      isNamedSpecifier(node.specifiers[j])
            THEN IF own
                 THEN [map |-> [map1 EXCEPT ![i].typeOnlyNamedImport = node],
                       inherited |-> inherited, threw |-> FALSE]
                 ELSE [map |-> map1,
                       inherited |-> [typeOnlyNamedImport |-> node],
                       threw |-> FALSE]
            ELSE [map |-> map1, inherited |-> inherited, threw |-> FALSE]
        ELSE IF Len(used.typeSpecifiers) > 0 THEN
            IF own
            THEN [map |-> [map1 EXCEPT ![i].reportValueImports =
                              Append(@, [node |-> node,
                                  typeSpecifiers |-> used.typeSpecifiers,
                                  valueSpecifiers |-> used.valueSpecifiers,
                                  unusedSpecifiers |-> used.unusedSpecifiers])],
                  inherited |-> inherited, threw |-> FALSE]
            ELSE [map |-> map1, inherited |-> inherited, threw |-> TRUE]
        ELSE [map |-> map1, inherited |-> inherited, threw |-> FALSE]

\* typeImportNames and the text of data.typeImports
RECURSIVE JoinWith(_, _)
JoinWith(strings, separator) ==
    IF strings = <<>> THEN ""
    ELSE IF Len(strings) = 1 THEN Head(strings)
    ELSE Head(strings) \o separator \o JoinWith(Tail(strings), separator)
typeImportNames(report) ==
    [i \in 1..Len(report.typeSpecifiers) |->
        "\"" \o report.typeSpecifiers[i].local.name \o "\""]
typeImportsText(names) ==
    IF Len(names) = 1 THEN names[1]
    ELSE JoinWith(<<JoinWith(SubSeq(names, 1, Len(names) - 1), ", "),
                    names[Len(names)]>>, " and ")

\* The arguments the fix generator of a report passes to fixToTypeImport
fixToTypeImportCall(report, sourceImports) ==
    [generator |-> "fixToTypeImport", node |-> report.node,
     typeSpecifiers |-> report.typeSpecifiers,
     typeOnlyNamedImport |-> sourceImports.typeOnlyNamedImport]

\* Whether the whole declaration is type-only (lines 257-260)
IsAllTypeOnly_IgnoresUnused(report) == Len(report.valueSpecifiers) = 0
IsAllTypeOnly(report) ==
    Len(report.valueSpecifiers) = 0 /\ Len(report.unusedSpecifiers) = 0

\* The body of the inner loop of Program:exit: the diagnostic of one report
TypeImportsReport(report, sourceImports) ==
    IF IsAllTypeOnly(report)
    THEN [node |-> report.node, messageId |-> "typeOverValue",
          fix |-> fixToTypeImportCall(report, sourceImports)]
    ELSE [node |-> report.node,
          messageId |-> IF Len(typeImportNames(report)) = 1
                        THEN "aImportIsOnlyTypes"
                        ELSE "someImportsAreOnlyTypes",
          data |-> [typeImports |-> typeImportsText(typeImportNames(report))],
          fix |-> fixToTypeImportCall(report, sourceImports)]

\* 'Program:exit'() of createPreferTypeImportsVisitor: what it reports
TypeImportsProgramExit(map) ==
    Concat([i \in 1..Len(map) |->
        [j \in 1..Len(map[i].reportValueImports) |->
            TypeImportsReport(map[i].reportValueImports[j], map[i])]])

\* TSImportType(node), registered when disallowTypeAnnotations is set
TSImportTypeHandler(node) ==
    <<[node |-> node, messageId |-> "noImportTypeAnnotations"]>>

\* ------------------------------------------------ type-imports-combine
SPECIFIER_KEYS == <<"default", "namespace", "named">>

\* usedSpecifiers of a list entry (lines 436-440)
UsedSpecifiers(node) ==
    [default |-> \E i \in DOMAIN node.specifiers :
                     isDefaultSpecifier(node.specifiers[i]),
     namespace |-> \E i \in DOMAIN node.specifiers :
                       isNamespaceSpecifier(node.specifiers[i]),
     named |-> \E i \in DOMAIN node.specifiers :
                   isNamedSpecifier(node.specifiers[i])]

\* sourceImportsMap[source] ??= {...} of the combine visitor
WithCombineSourceImports(map, source) ==
    IF HasSource(map, source) \/ source \in InheritedKeys THEN map
    ELSE Append(map, [source |-> source, numOfTypeSpecifiers |-> 0,
                      numOfValueSpecifiers |-> 0,
                      numOfUnusedSpecifiers |-> 0, list |-> <<>>])

\* ImportDeclaration(node) of createPreferTypeImportsCombineVisitor: the map
\* afterwards and whether the handler threw (list.push on the inherited
\* value, which has no list, is a TypeError)
CombineImportDeclaration(map, node) ==
    IF Len(node.specifiers) = 0 THEN [map |-> map, threw |-> FALSE]
    ELSE
        LET source == node.source.value
            map1 == WithCombineSourceImports(map, source)
            i == SourceIndex(map1, source)
            used == parseUsedKindSpecifierVariables(node)
            numOfTypeSpecifiers == Len(used.typeSpecifiers)
            numOfValueSpecifiers == Len(used.valueSpecifiers)
            numOfUnusedSpecifiers == Len(used.unusedSpecifiers)
        IN  IF ~HasSource(map1, source) THEN [map |-> map1, threw |-> TRUE]
            ELSE [map |->
                    [map1 EXCEPT
                       ![i].numOfTypeSpecifiers = @ + numOfTypeSpecifiers,
                       ![i].numOfValueSpecifiers = @ + numOfValueSpecifiers,
                       ![i].numOfUnusedSpecifiers = @ + numOfUnusedSpecifiers,
                       ![i].list = Append(@,
                          [node |-> node,
                           numOfTypeSpecifiers |-> numOfTypeSpecifiers,
                           numOfValueSpecifiers |-> numOfValueSpecifiers,
                           numOfUnusedSpecifiers |-> numOfUnusedSpecifiers,
                           usedSpecifiers |-> UsedSpecifiers(node)])],
                  threw |-> FALSE]

\* The first element of a sequence that is in `matching`, or null
\* (Array.prototype.find)
Find(seq, matching) ==
    LET hits == {i \in DOMAIN seq : seq[i] \in matching} IN
    IF hits = {} THEN null
    ELSE seq[CHOOSE i \in hits : \A j \in hits : i <= j]

\* The elements of a sequence that are in `matching`, in order
\* (Array.prototype.filter)
RECURSIVE Filter(_, _)
Filter(seq, matching) ==
    IF seq = <<>> THEN <<>>
    ELSE (IF Head(seq) \in matching THEN <<Head(seq)>> ELSE <<>>)
         \o Filter(Tail(seq), matching)

\* The fix generators of the combine visitor, as the calls they make
fixCombinImportsCall(node, toNode) ==
    [generator |-> "fixCombinImports", node |-> node, toNode |-> toNode]
NoFix == [generator |-> "none"]

\* typeOnlyNamedImportData?.node ?? null (lines 464-476)
TypeOnlyNamedImportOf(list) ==
    LET data == Find(list, {d \in Elements(list) :
                               /\ d.usedSpecifiers.named
                               /\ ~d.usedSpecifiers.default
                               /\ ~d.usedSpecifiers.namespace})
    IN  IF data = null THEN null ELSE data.node

\* SPECIFIER_KEYS.find(k => usedSpecifiers[k])
SpecifierKindOf(usedSpecifiers) ==
    IF usedSpecifiers.default THEN "default"
    ELSE IF usedSpecifiers.namespace THEN "namespace"
    ELSE "named"

\* Which declaration a duplicate of a kind is merged into: the value of
\* typeOnlyImportSpecifierKindMap[specifierKind] after line 507
KindMapAfter(kindMap, specifierKind, node) ==
    [kindMap EXCEPT ![specifierKind] = node]

\* The fix of a duplicateTypeImports report (lines 488-503): none unless
\* the kind is named (and a variant that merges whatever the kind)
DuplicateFix_AnyKind(specifierKind, node, alreadyNode) ==
    fixCombinImportsCall(node, alreadyNode)
DuplicateFix(specifierKind, node, alreadyNode) ==
    IF specifierKind # "named" THEN NoFix
    ELSE fixCombinImportsCall(node, alreadyNode)

\* The loop of lines 457-509 over the entries `rest` of `list`
RECURSIVE AllTypesDiagnostics(_, _, _)
AllTypesDiagnostics(list, rest, kindMap) ==
    IF rest = <<>> THEN <<>>
    ELSE
      LET node == Head(rest).node
          specifierKind == SpecifierKindOf(Head(rest).usedSpecifiers)
          alreadyNode == kindMap[specifierKind]
      IN  IF node.importKind = "value"
          THEN <<[node |-> node, messageId |-> "typeOverValue",
                  fix |-> [generator |-> "fixToTypeImport", node |-> node,
                           typeSpecifiers |-> node.specifiers,
                           typeOnlyNamedImport |->
                               TypeOnlyNamedImportOf(list)]]>>
               \o AllTypesDiagnostics(list, Tail(rest), kindMap)
          ELSE (IF alreadyNode # null
                THEN <<[node |-> node, messageId |-> "duplicateTypeImports",
                        fix |-> DuplicateFix(specifierKind, node,
                                             alreadyNode)]>>
                ELSE <<>>)
               \o AllTypesDiagnostics(list, Tail(rest),
                      KindMapAfter(kindMap, specifierKind, node))

\* The callback of find of lines 521-543: whether the value import `node`
\* can take the specifiers of a declaration with `usedSpecifiers`
NoConflict_NamedJoinsNamespace(specifiers, usedSpecifiers) ==
    \A x \in Elements(specifiers) :
        /\ ~(usedSpecifiers.default /\ isDefaultSpecifier(x))
        /\ ~(usedSpecifiers.namespace
             /\ (isNamespaceSpecifier(x) \/ isNamedSpecifier(x)))
RECURSIVE NoConflict(_, _)
NoConflict(specifiers, usedSpecifiers) ==
    IF specifiers = <<>> THEN TRUE
    ELSE LET specifier == Head(specifiers) IN
         IF usedSpecifiers.default /\ isDefaultSpecifier(specifier)
         THEN FALSE
         ELSE IF /\ usedSpecifiers.namespace
                 /\ (isNamespaceSpecifier(specifier)
                     \/ isNamedSpecifier(specifier))
         THEN FALSE
         ELSE IF usedSpecifiers.named /\ isNamespaceSpecifier(specifier)
         THEN FALSE
         ELSE NoConflict(Tail(specifiers), usedSpecifiers)

\* The loop of lines 516-562
MixedDiagnostics(list) ==
    LET withTypes == Filter(list, {d \in Elements(list) :
                                      d.numOfTypeSpecifiers > 0})
        values == Filter(list, {d \in Elements(list) :
                                   d.node.importKind = "value"})
        target(d) == Find(values, {v \in Elements(values) :
                        NoConflict(v.node.specifiers, d.usedSpecifiers)})
    IN  Concat([k \in 1..Len(withTypes) |->
            IF target(withTypes[k]) # null
            THEN <<[node |-> withTypes[k].node,
                    messageId |-> "mustBeOneImport",
                    fix |-> fixCombinImportsCall(withTypes[k].node,
                                target(withTypes[k]).node)]>>
            ELSE <<>>])

\* The body of the loop of Program:exit for one sourceImports
CombineSourceDiagnostics(sourceImports) ==
    IF /\ sourceImports.numOfValueSpecifiers = 0
       /\ sourceImports.numOfUnusedSpecifiers = 0
    THEN AllTypesDiagnostics(sourceImports.list, sourceImports.list,
             [default |-> null, namespace |-> null, named |-> null])
    ELSE IF /\ sourceImports.numOfValueSpecifiers > 0
            /\ Len(sourceImports.list) > 0
    THEN MixedDiagnostics(sourceImports.list)
    ELSE <<>>

\* 'Program:exit'() of createPreferTypeImportsCombineVisitor
CombineProgramExit(map) ==
    LET withTypes == Filter(map, {m \in Elements(map) :
                                     m.numOfTypeSpecifiers > 0})
    IN  Concat([i \in 1..Len(withTypes) |->
                   CombineSourceDiagnostics(withTypes[i])])

\* ------------------------------------------------------ fix generators
\* sourceCode.getTokenBefore(target, filter): the nearest token of node
\* before target that is in `matching` (a comment only if it is in it)
LastOf(tokens, matching) ==
    LET hits == {i \in DOMAIN tokens : tokens[i] \in matching} IN
    IF hits = {} THEN null
    ELSE tokens[CHOOSE i \in hits : \A j \in hits : j <= i]
getTokenBefore(node, target, matching) ==
    LastOf(node.tokens, {t \in matching : t.range[2] <= target.range[1]})
\* sourceCode.getTokenAfter(target, filter)
getTokenAfter(node, target, matching) ==
    FirstOf(node.tokens, {t \in matching : t.range[1] >= target.range[2]})

\* The tokens of node that are not comments, and util.isCommaToken,
\* util.isOpeningBraceToken, util.isClosingBraceToken as sets of them
Tokens(node) == {t \in TokensOf(node) : ~IsComment(t)}
Punctuators(node, value) ==
    {t \in TokensOf(node) : t.type = "Punctuator" /\ t.value = value}
CommaTokens(node) == Punctuators(node, ",")
OpeningBraceTokens(node) == Punctuators(node, "{")
ClosingBraceTokens(node) == Punctuators(node, "}")

\* The text of a declaration: its tokens and comments with the blanks
\* between them
RECURSIVE Blanks(_)
Blanks(n) == IF n <= 0 THEN "" ELSE " " \o Blanks(n - 1)
RECURSIVE TextFrom(_, _)
TextFrom(tokens, pos) ==
    IF tokens = <<>> THEN ""
    ELSE Blanks(Head(tokens).range[1] - pos) \o Head(tokens).value
         \o TextFrom(Tail(tokens), Head(tokens).range[2])
TextOf(node) == TextFrom(node.tokens, node.range[1])

\* sourceCode.text.slice(from, to), inside node; sourceCode.getText(part)
Slice(node, from, to) ==
    SubSeq(TextOf(node), from - node.range[1] + 1, to - node.range[1])
getText(node, part) == Slice(node, part.range[1], part.range[2])

\* String.prototype.trim
RECURSIVE TrimStart(_)
TrimStart(str) ==
    IF Len(str) > 0 /\ SubSeq(str, 1, 1) = " "
    THEN TrimStart(SubSeq(str, 2, Len(str))) ELSE str
RECURSIVE TrimEnd(_)
TrimEnd(str) ==
    IF Len(str) > 0 /\ SubSeq(str, Len(str), Len(str)) = " "
    THEN TrimEnd(SubSeq(str, 1, Len(str) - 1)) ELSE str
Trim(str) == TrimEnd(TrimStart(str))

\* The fixer: every fix is the replacement of a range by a text
replaceTextRange(range, text) == [range |-> range, text |-> text]
insertTextBefore(target, text) ==
    replaceTextRange(<<target.range[1], target.range[1]>>, text)
insertTextAfter(target, text) ==
    replaceTextRange(<<target.range[2], target.range[2]>>, text)
remove(target) == replaceTextRange(target.range, "")

\* What a generator has yielded: fixes, with Throws(...) last when a
\* nullThrows made it throw.  `Then` is sequencing: nothing runs after a throw.
Threw(yielded) ==
    yielded # <<>> /\ "throws" \in DOMAIN yielded[Len(yielded)]
Then(yielded, more) == IF Threw(yielded) THEN yielded ELSE yielded \o more
MissingToken(token) == <<Throws(token)>>

\* fixToTypeImportByInsertType(fixer, node, isDefaultImport, sourceCode)
fixToTypeImportByInsertType(node, isDefaultImport) ==
    LET importToken == getFirstToken(node, ImportTokens(node))
        openingBraceToken ==
            getFirstTokenBetween(node, importToken, node.source,
                                 OpeningBraceTokens(node))
        commaToken == getTokenBefore(node, openingBraceToken,
                                     CommaTokens(node))
        closingBraceToken ==
            getFirstTokenBetween(node, openingBraceToken, node.source,
                                 ClosingBraceTokens(node))
        specifiersText ==
            Slice(node, commaToken.range[2], closingBraceToken.range[2])
    IN  IF importToken = null THEN MissingToken("import")
        ELSE Then(<<insertTextAfter(importToken, " type")>>,
             IF ~isDefaultImport \/ openingBraceToken = null THEN <<>>
             ELSE IF commaToken = null THEN MissingToken(",")
             ELSE IF closingBraceToken = null THEN MissingToken("}")
             ELSE <<removeRange(<<commaToken.range[1],
                                  closingBraceToken.range[2]>>)>>
                  \o (IF Len(node.specifiers) > 1
                      THEN <<insertTextAfter(node,
                                "\nimport type" \o specifiersText
                                \o " from " \o getText(node, node.source)
                                \o ";")>>
                      ELSE <<>>))

\* The declaration's default specifier, namespace specifier (or null) and
\* named specifiers, as the fix generators take them apart
DefaultSpecifierOf(node) ==
    IF isDefaultSpecifier(node.specifiers[1]) THEN node.specifiers[1] ELSE null
NamespaceSpecifierOf(node) ==
    Find(node.specifiers, {x \in Elements(node.specifiers) :
                              isNamespaceSpecifier(x)})
NamedSpecifiersOf(node) ==
    Filter(node.specifiers, {x \in Elements(node.specifiers) :
                                isNamedSpecifier(x)})

\* getNamedSpecifierRanges(namedSpecifierGroup, allNamedSpecifiers)
\* The ranges without the test of isFirst || isLast: the comma after the
\* group always stays.
getNamedSpecifierRanges_KeepsComma(node, namedSpecifierGroup, allNamedSpecifiers) ==
    LET first == namedSpecifierGroup[1]
        last == namedSpecifierGroup[Len(namedSpecifierGroup)]
        before == getTokenBefore(node, first, Tokens(node))
        after == getTokenAfter(node, last, Tokens(node))
    IN  [textRange |-> <<before.range[2], after.range[1]>>,
         removeRange |->
            <<IF before \in CommaTokens(node) THEN before.range[1]
              ELSE before.range[2],
              last.range[2]>>]

getNamedSpecifierRanges(node, namedSpecifierGroup, allNamedSpecifiers) ==
    LET first == namedSpecifierGroup[1]
        last == namedSpecifierGroup[Len(namedSpecifierGroup)]
        before == getTokenBefore(node, first, Tokens(node))
        after == getTokenAfter(node, last, Tokens(node))
        isFirst == allNamedSpecifiers[1] = first
        isLast == allNamedSpecifiers[Len(allNamedSpecifiers)] = last
    IN  [textRange |-> <<before.range[2], after.range[1]>>,
         removeRange |->
            <<IF before \in CommaTokens(node) THEN before.range[1]
              ELSE before.range[2],
              IF (isFirst \/ isLast) /\ after \in CommaTokens(node)
              THEN after.range[2] ELSE last.range[2]>>]

\* typeNamedSpecifierGroups (lines 835-847): the runs of type specifiers
\* among the named specifiers; `group` is the run being collected
RECURSIVE SpecifierGroups(_, _, _)
SpecifierGroups(allNamedSpecifiers, types, group) ==
    IF allNamedSpecifiers = <<>>
    THEN IF group # <<>> THEN <<group>> ELSE <<>>
    ELSE IF Head(allNamedSpecifiers) \in types
    THEN SpecifierGroups(Tail(allNamedSpecifiers), types,
                         Append(group, Head(allNamedSpecifiers)))
    ELSE (IF group # <<>> THEN <<group>> ELSE <<>>)
         \o SpecifierGroups(Tail(allNamedSpecifiers), types, <<>>)

\* getFixesNamedSpecifiers(typeNamedSpecifiers, allNamedSpecifiers);
\* `thrown` is what a failing nullThrows threw, <<>> if none did
getFixesNamedSpecifiers(node, typeNamedSpecifiers, allNamedSpecifiers) ==
    LET openingBraceToken ==
            getTokenBefore(node, typeNamedSpecifiers[1],
                           OpeningBraceTokens(node))
        commaToken == getTokenBefore(node, openingBraceToken,
                                     CommaTokens(node))
        closingBraceToken ==
            getFirstTokenBetween(node, openingBraceToken, node.source,
                                 ClosingBraceTokens(node))
        groups == SpecifierGroups(allNamedSpecifiers,
                                  Elements(typeNamedSpecifiers), <<>>)
        ranges == [k \in 1..Len(groups) |->
                      getNamedSpecifierRanges(node, groups[k],
                                              allNamedSpecifiers)]
    IN  IF Len(allNamedSpecifiers) = 0
        THEN [typeNamedSpecifiersText |-> "",
              removeTypeNamedSpecifiers |-> <<>>, thrown |-> <<>>]
        ELSE IF Len(typeNamedSpecifiers) = Len(allNamedSpecifiers)
        THEN IF openingBraceToken = null
             THEN [typeNamedSpecifiersText |-> "",
                   removeTypeNamedSpecifiers |-> <<>>,
                   thrown |-> MissingToken("{")]
             ELSE IF commaToken = null
             THEN [typeNamedSpecifiersText |-> "",
                   removeTypeNamedSpecifiers |-> <<>>,
                   thrown |-> MissingToken(",")]
             ELSE IF closingBraceToken = null
             THEN [typeNamedSpecifiersText |-> "",
                   removeTypeNamedSpecifiers |-> <<>>,
                   thrown |-> MissingToken("}")]
             ELSE [typeNamedSpecifiersText |->
                       Slice(node, openingBraceToken.range[2],
                             closingBraceToken.range[1]),
                   removeTypeNamedSpecifiers |->
                       <<removeRange(<<commaToken.range[1],
                                       closingBraceToken.range[2]>>)>>,
                   thrown |-> <<>>]
        ELSE [typeNamedSpecifiersText |->
                  JoinWith([k \in 1..Len(groups) |->
                               Slice(node, ranges[k].textRange[1],
                                     ranges[k].textRange[2])], ","),
              removeTypeNamedSpecifiers |->
                  [k \in 1..Len(groups) |->
                      removeRange(ranges[k].removeRange)],
              thrown |-> <<>>]

\* The fix of lines 680-714, and whether it is yielded at once or last
InsertTypeNamedSpecifiers(node, typeOnlyNamedImport, text) ==
    LET closingBraceToken ==
            getFirstTokenBetween(typeOnlyNamedImport,
                getFirstToken(typeOnlyNamedImport,
                              Tokens(typeOnlyNamedImport)),
                typeOnlyNamedImport.source,
                ClosingBraceTokens(typeOnlyNamedImport))
        before == getTokenBefore(typeOnlyNamedImport, closingBraceToken,
                                 Tokens(typeOnlyNamedImport))
    IN  IF typeOnlyNamedImport = null
        THEN <<insertTextBefore(node,
                  "import type {" \o text \o "} from "
                  \o getText(node, node.source) \o ";\n")>>
        ELSE IF closingBraceToken = null THEN MissingToken("}")
        ELSE <<insertTextBefore(closingBraceToken,
                  (IF /\ before \notin CommaTokens(typeOnlyNamedImport)
                      /\ before \notin OpeningBraceTokens(typeOnlyNamedImport)
                   THEN "," ELSE "") \o text)>>
InsertIsDeferred(node, typeOnlyNamedImport) ==
    /\ typeOnlyNamedImport # null
    /\ ~(typeOnlyNamedImport.range[2] <= node.range[1])

\* The fixes of lines 716-741 for a type-only namespace specifier: the
\* removal kept for later and the insertion yielded at once (and a variant
\* that removes nothing)
RemoveTypeNamespaceSpecifier_Keeps(node, namespaceSpecifier) == <<>>
RemoveTypeNamespaceSpecifier(node, namespaceSpecifier) ==
    LET commaToken == getTokenBefore(node, namespaceSpecifier,
                                     CommaTokens(node))
    IN  IF commaToken = null THEN MissingToken(",")
        ELSE <<removeRange(<<commaToken.range[1],
                             namespaceSpecifier.range[2]>>)>>
InsertTypeNamespaceImport(node, namespaceSpecifier) ==
    <<insertTextBefore(node,
         "import type " \o getText(node, namespaceSpecifier) \o " from "
         \o getText(node, node.source) \o ";\n")>>

\* The fixes of lines 742-773 for a type-only default specifier
FixTypeDefaultSpecifier(node, typeSpecifiers, defaultSpecifier) ==
    LET importToken == getFirstToken(node, ImportTokens(node))
        commaToken == getTokenAfter(node, defaultSpecifier,
                                    CommaTokens(node))
        defaultText == Trim(Slice(node, defaultSpecifier.range[1],
                                  commaToken.range[1]))
        afterToken == getTokenAfter(node, commaToken, TokensOf(node))
    IN  IF Len(typeSpecifiers) = Len(node.specifiers)
        THEN IF importToken = null THEN MissingToken("import")
             ELSE <<insertTextAfter(importToken, " type")>>
        ELSE IF commaToken = null THEN MissingToken(",")
        ELSE Then(<<insertTextBefore(node,
                       "import type " \o defaultText \o " from "
                       \o getText(node, node.source) \o ";\n")>>,
                  IF afterToken = null THEN MissingToken("any token")
                  ELSE <<removeRange(<<defaultSpecifier.range[1],
                                       afterToken.range[1]>>)>>)

\* fixToTypeImport(fixer, { node, typeSpecifiers, typeOnlyNamedImport },
\* sourceCode): the fixes it yields, in order
fixToTypeImport(node, typeSpecifiers, typeOnlyNamedImport) ==
    LET defaultSpecifier == DefaultSpecifierOf(node)
        namespaceSpecifier == NamespaceSpecifierOf(node)
        namedSpecifiers == NamedSpecifiersOf(node)
        types == Elements(typeSpecifiers)
        typeNamedSpecifiers == Filter(namedSpecifiers, types)
        fixesNamedSpecifiers ==
            getFixesNamedSpecifiers(node, typeNamedSpecifiers,
                                    namedSpecifiers)
        insertTypeNamedSpecifiers ==
            IF typeNamedSpecifiers = <<>> THEN <<>>
            ELSE InsertTypeNamedSpecifiers(node, typeOnlyNamedImport,
                     fixesNamedSpecifiers.typeNamedSpecifiersText)
        deferred == /\ ~Threw(insertTypeNamedSpecifiers)
                    /\ InsertIsDeferred(node, typeOnlyNamedImport)
        typeNamespace == namespaceSpecifier # null
                         /\ namespaceSpecifier \in types
        fixesRemoveTypeNamespaceSpecifier ==
            IF typeNamespace
            THEN RemoveTypeNamespaceSpecifier(node, namespaceSpecifier)
            ELSE <<>>
    IN  IF namespaceSpecifier # null /\ defaultSpecifier = null
        THEN fixToTypeImportByInsertType(node, FALSE)
        ELSE IF /\ defaultSpecifier # null
                /\ defaultSpecifier \in types
                /\ Len(namedSpecifiers) = 0
                /\ namespaceSpecifier = null
        THEN fixToTypeImportByInsertType(node, TRUE)
        ELSE IF /\ defaultSpecifier = null
                /\ \A x \in Elements(namedSpecifiers) : x \in types
                /\ namespaceSpecifier = null
        THEN fixToTypeImportByInsertType(node, FALSE)
        ELSE IF fixesNamedSpecifiers.thrown # <<>>
        THEN fixesNamedSpecifiers.thrown
        ELSE
          Then(IF deferred THEN <<>> ELSE insertTypeNamedSpecifiers,
          Then(IF ~typeNamespace THEN <<>>
               ELSE IF Threw(fixesRemoveTypeNamespaceSpecifier)
               THEN fixesRemoveTypeNamespaceSpecifier
               ELSE InsertTypeNamespaceImport(node, namespaceSpecifier),
          Then(IF defaultSpecifier # null /\ defaultSpecifier \in types
               THEN FixTypeDefaultSpecifier(node, typeSpecifiers,
                                            defaultSpecifier)
               ELSE <<>>,
               fixesNamedSpecifiers.removeTypeNamedSpecifiers
               \o fixesRemoveTypeNamespaceSpecifier
               \o (IF deferred THEN insertTypeNamedSpecifiers ELSE <<>>))))

\* The three steps of fixCombinImports before the removal of node.  Each
\* gives what it yields and whether the generator returns there.
CombineDefault(node, toNode, defaultSpecifier) ==
    LET importOrTypeToken == getTokenBefore(node, defaultSpecifier,
                                            Tokens(node))
        afterToken == getTokenAfter(node, defaultSpecifier, Tokens(node))
        defaultText == Trim(Slice(node, importOrTypeToken.range[2],
                                  afterToken.range[1]))
        toImportToken == getFirstToken(toNode, ImportTokens(toNode))
        typeToken ==
            getFirstTokenBetween(toNode, toImportToken,
                IF Len(toNode.specifiers) > 0
                THEN toNode.specifiers[1].local ELSE toNode.source,
                TypeTokens(toNode))
        insertTarget == IF toNode.importKind = "type" THEN typeToken
                        ELSE toImportToken
    IN  IF importOrTypeToken = null THEN MissingToken("import")
        ELSE IF afterToken = null THEN MissingToken("from")
        ELSE IF toImportToken = null THEN MissingToken("import")
        ELSE IF insertTarget = null THEN MissingToken("type")
        ELSE <<insertTextAfter(insertTarget, " " \o defaultText \o ",")>>

CombineNamespace(node, toNode, namespaceSpecifier) ==
    LET beforeToken == getTokenBefore(node, namespaceSpecifier, Tokens(node))
        afterToken == getTokenAfter(node, namespaceSpecifier, Tokens(node))
        namespaceText == Trim(Slice(node, beforeToken.range[2],
                                    afterToken.range[1]))
        toDefaultSpecifier ==
            Find(toNode.specifiers, {x \in Elements(toNode.specifiers) :
                                        isDefaultSpecifier(x)})
    IN  IF beforeToken = null
        THEN [yielded |-> MissingToken("import"), returns |-> FALSE]
        ELSE IF afterToken = null
        THEN [yielded |-> MissingToken("from"), returns |-> FALSE]
        ELSE IF toDefaultSpecifier = null
        THEN [yielded |-> <<>>, returns |-> TRUE]
        ELSE [yielded |-> <<insertTextAfter(toDefaultSpecifier,
                                ", " \o namespaceText)>>,
              returns |-> FALSE]

CombineNamed(node, toNode, namedSpecifiers) ==
    LET openingBraceToken ==
            getTokenBefore(node, namedSpecifiers[1],
                           OpeningBraceTokens(node))
        closingBraceToken ==
            getFirstTokenBetween(node, namedSpecifiers[Len(namedSpecifiers)],
                node.source, ClosingBraceTokens(node) \cup CommaTokens(node))
        specifiersText == Slice(node, openingBraceToken.range[2],
                                closingBraceToken.range[1])
        toClosingBraceToken ==
            getFirstTokenBetween(toNode,
                toNode.specifiers[Len(toNode.specifiers)], toNode.source,
                ClosingBraceTokens(toNode))
        beforeToken == getTokenBefore(toNode, toClosingBraceToken,
                                      Tokens(toNode))
        insertTarget == IF beforeToken \in CommaTokens(toNode)
                        THEN beforeToken ELSE toClosingBraceToken
        fromToken == getTokenBefore(toNode, toNode.source, Tokens(toNode))
    IN  IF openingBraceToken = null THEN MissingToken("{")
        ELSE IF closingBraceToken = null THEN MissingToken("}")
        ELSE IF toClosingBraceToken # null
        THEN IF \E x \in Elements(toNode.specifiers) : isNamedSpecifier(x)
             THEN <<insertTextBefore(insertTarget,
                       "," \o Trim(specifiersText))>>
             ELSE <<insertTextBefore(insertTarget,
                       " " \o Trim(specifiersText) \o " ")>>
        ELSE IF fromToken = null THEN MissingToken("from")
        ELSE <<replaceTextRange(
                  <<getTokenBefore(toNode, fromToken,
                                   TokensOf(toNode)).range[2],
                    fromToken.range[1]>>,
                  ", {" \o specifiersText \o "} ")>>

\* fixCombinImports(fixer, { node, toNode }, sourceCode)
fixCombinImports(node, toNode) ==
    LET defaultSpecifier == DefaultSpecifierOf(node)
        namespaceSpecifier == NamespaceSpecifierOf(node)
        namedSpecifiers == NamedSpecifiersOf(node)
        namespace == IF namespaceSpecifier # null
                     THEN CombineNamespace(node, toNode, namespaceSpecifier)
                     ELSE [yielded |-> <<>>, returns |-> FALSE]
    IN  Then(IF defaultSpecifier # null
             THEN CombineDefault(node, toNode, defaultSpecifier) ELSE <<>>,
        Then(namespace.yielded,
             IF namespace.returns THEN <<>>
             ELSE Then(IF Len(namedSpecifiers) > 0
                       THEN CombineNamed(node, toNode, namedSpecifiers)
                       ELSE <<>>,
                       <<remove(node)>>)))

\* What the fix generator of a diagnostic yields
FixesOf(diagnostic) ==
    IF "fix" \notin DOMAIN diagnostic THEN <<>>
    ELSE IF "generator" \notin DOMAIN diagnostic.fix THEN <<diagnostic.fix>>
    ELSE IF diagnostic.fix.generator = "fixToTypeImport"
    THEN fixToTypeImport(diagnostic.fix.node, diagnostic.fix.typeSpecifiers,
                         diagnostic.fix.typeOnlyNamedImport)
    ELSE IF diagnostic.fix.generator = "fixCombinImports"
    THEN fixCombinImports(diagnostic.fix.node, diagnostic.fix.toNode)
    ELSE <<>>

\* ------------------------------------------------- import declarations
\* The references scope analysis gives for an imported binding
TypeReference ==
    [isValueReference |-> FALSE, isTypeReference |-> TRUE,
     parents |-> <<"TSTypeReference">>]
ValueReference ==
    [isValueReference |-> TRUE, isTypeReference |-> FALSE,
     parents |-> <<"CallExpression">>]
TypeQueryReference ==
    [isValueReference |-> TRUE, isTypeReference |-> FALSE,
     parents |-> <<"TSTypeQuery">>]
QualifiedTypeQueryReference ==
    [isValueReference |-> TRUE, isTypeReference |-> FALSE,
     parents |-> <<"TSQualifiedName", "TSTypeQuery">>]
QualifiedValueReference ==
    [isValueReference |-> TRUE, isTypeReference |-> FALSE,
     parents |-> <<"TSQualifiedName", "TSImportEqualsDeclaration">>]
DualReference ==
    [isValueReference |-> TRUE, isTypeReference |-> TRUE,
     parents |-> <<"ExportSpecifier">>]
ReferenceKinds ==
    {TypeReference, ValueReference, TypeQueryReference,
     QualifiedTypeQueryReference, QualifiedValueReference, DualReference}

\* The reference lists of at most n references
RECURSIVE ReferenceLists(_)
ReferenceLists(n) ==
    IF n = 0 THEN {<<>>}
    ELSE ReferenceLists(n - 1)
         \cup {Append(refs, r) : refs \in {l \in ReferenceLists(n - 1) :
                                              Len(l) = n - 1},
                                 r \in ReferenceKinds}

\* Three usages: never referenced, referenced in types only, called
UsageSamples ==
    {<<>>, <<TypeReference, QualifiedTypeQueryReference>>,
     <<TypeReference, ValueReference>>}

\* The local name of specifier idx of the ordinal-th node of the program
LocalName(ordinal, idx) ==
    <<"A", "B", "C", "D", "E", "F">>[idx] \o ToString(ordinal)

\* The descriptions of n named specifiers, the first being specifier `first`
RECURSIVE NamedOfLength(_, _, _, _)
NamedOfLength(usages, ordinal, first, n) ==
    IF n = 0 THEN {<<>>}
    ELSE {Append(named, [name |-> LocalName(ordinal, first + n - 1),
                         references |-> u]) :
            named \in NamedOfLength(usages, ordinal, first, n - 1),
            u \in usages}

\* The optional default import of a declaration
DefaultChoices(names, usages) ==
    {null} \cup {[name |-> n, references |-> u] : n \in names, u \in usages}

\* What follows it: nothing, a namespace import or a braced list of at most
\* MaxNamed named imports; `first` numbers the first specifier written here
ClauseRests(usages, ordinal, first) ==
    {[namespace |-> null, named |-> <<>>, braces |-> FALSE]}
    \cup {[namespace |-> [name |-> LocalName(ordinal, first),
                          references |-> u],
           named |-> <<>>, braces |-> FALSE] : u \in usages}
    \cup UNION {{[namespace |-> null, named |-> named, braces |-> TRUE] :
                    named \in NamedOfLength(usages, ordinal, first, n)} :
                n \in 0..MaxNamed}
FirstAfter(default) == IF default = null THEN 1 ELSE 2

ImportShape(kind, source, comment, default, rest) ==
    [importKind |-> kind, source |-> source, comment |-> comment,
     default |-> default, namespace |-> rest.namespace,
     named |-> rest.named, braces |-> rest.braces]

\* The inputs of a visit of an import declaration under `prefer`: the kinds,
\* module names, comments, default-import names and usages to draw from.
\* `type-imports`: a module and a module whose name Object.prototype has,
\* bindings of every usage (the usage of a type import is not looked at).
\* `no-type-imports`: a binding called `type`, a comment after the first
\* word.
\* `type-imports-combine`: as `type-imports`, with type imports of unused
\* bindings, more declarations and shorter lists of named imports.
SourceChoices(strategy) ==
    IF strategy = "no-type-imports" THEN {"m1"} ELSE {"m1", "constructor"}
CommentChoices(strategy) ==
    IF strategy = "no-type-imports" THEN BOOLEAN ELSE {FALSE}
DefaultNames(strategy, ordinal) ==
    IF strategy = "no-type-imports" THEN {LocalName(ordinal, 1), "type"}
    ELSE {LocalName(ordinal, 1)}
UsageChoices(strategy, kind) ==
    IF strategy # "no-type-imports" /\ kind = "value" THEN UsageSamples
    ELSE IF strategy = "type-imports-combine"
    THEN {<<>>, <<TypeReference>>}
    ELSE {<<TypeReference>>}
NamedBound(strategy) ==
    IF strategy = "type-imports-combine" THEN MaxCombineNamed ELSE MaxNamed
DeclBound(strategy) ==
    IF strategy = "type-imports-combine" THEN MaxCombineDecls ELSE MaxDecls

\* `import('m1')` in a type annotation
TSImportTypeNode(start) ==
    [type |-> "TSImportType", range |-> <<start, start + Len("import('m1')")>>]

\* ------------------------------------------------------------------ state
VARIABLES
    ruleObject,     \* valid-rule-meta: the rule object model, or null
    diagnostics,    \* what context.report received, in order
    visited,        \* valid-rule-meta: the types of the nodes visited so far
    pc,             \* "traverse" until Program:exit has run, then "done";
                    \* "crashed" once a handler has thrown
    prefer,                  \* consistent-type-imports: option.prefer
    disallowTypeAnnotations, \* consistent-type-imports: the option
    sourceImportsMap,        \* type-imports: the own values of the map
    inherited,               \* type-imports: the value the map inherits
    program,                 \* consistent-type-imports: the nodes visited
    declaration,    \* classification: the declaration it is applied to
    used,           \* classification: what it returned, or null
    expression,     \* flattenExpressions: the node it is called on
    pending,        \* flattenExpressions: the nodes of the calls to come
    yielded,        \* flattenExpressions: what it has yielded so far
    options,                 \* no-restricted-imports: the rule's options
    restrictedPaths,         \* no-restricted-imports: parseOptions' result
    restrictedPatternGroups  \* no-restricted-imports: parseOptions' result

metaVars == <<ruleObject, visited>>
importVars ==
    <<prefer, disallowTypeAnnotations, sourceImportsMap, inherited, program>>
classifyVars == <<declaration, used>>
flattenVars == <<expression, pending, yielded>>
optionVars == <<options, restrictedPaths, restrictedPatternGroups>>
vars == <<ruleObject, diagnostics, visited, pc, prefer,
          disallowTypeAnnotations, sourceImportsMap, inherited, program,
          declaration, used, expression, pending, yielded, options,
          restrictedPaths, restrictedPatternGroups>>

NextLoc == <<Len(visited) + 1>>

\* No options parsed
OptionsIdle ==
    options = <<>> /\ restrictedPaths = <<>> /\ restrictedPatternGroups = <<>>
\* No rule object seen yet
MetaIdle == ruleObject = null /\ visited = <<>>
\* No import visitor created
ImportsIdle ==
    /\ prefer = "none"
    /\ disallowTypeAnnotations = FALSE
    /\ sourceImportsMap = <<>>
    /\ inherited = [typeOnlyNamedImport |-> null]
    /\ program = <<>>
\* Nothing to classify
ClassifyIdle == declaration = null /\ used = null
\* Nothing to flatten
FlattenIdle == expression = null /\ pending = <<>> /\ yielded = <<>>

\* ------------------------------------------------------- valid-rule-meta
MetaInit ==
    /\ MetaIdle
    /\ OptionsIdle
    /\ diagnostics = <<>>
    /\ pc = "traverse"
    /\ ImportsIdle
    /\ ClassifyIdle
    /\ FlattenIdle

VisitObjectExpression ==
    /\ pc = "traverse"
    /\ Len(visited) < MaxVisits
    /\ \E node \in ObjectInputs(NextLoc) :
           ruleObject' = ObjectExpressionHandler(ruleObject, node)
    /\ visited' = Append(visited, "ObjectExpression")
    /\ UNCHANGED <<optionVars, diagnostics, pc, importVars, classifyVars, flattenVars>>

VisitCallExpression ==
    /\ pc = "traverse"
    /\ Len(visited) < MaxVisits
    /\ \E node \in CallInputs(NextLoc) :
           ruleObject' = CallExpressionHandler(ruleObject, node)
    /\ visited' = Append(visited, "CallExpression")
    /\ UNCHANGED <<optionVars, diagnostics, pc, importVars, classifyVars, flattenVars>>

ProgramExit ==
    /\ pc = "traverse"
    /\ diagnostics' = ProgramExitDiagnostics(ruleObject)
    /\ pc' = "done"
    /\ UNCHANGED <<optionVars, ruleObject, visited, importVars, classifyVars, flattenVars>>

MetaNext == VisitObjectExpression \/ VisitCallExpression \/ ProgramExit

SpecMeta == MetaInit /\ [][MetaNext]_vars

\* ------------------------------------------- parseUsedKindSpecifierVariables
ClassifyInit ==
    /\ \E default \in DefaultChoices({LocalName(1, 1)},
                                     ReferenceLists(MaxRefs)) :
         \E rest \in ClauseRests(ReferenceLists(MaxRefs), 1,
                                 FirstAfter(default)) :
           declaration = ImportDeclaration(
               ImportShape("value", "m1", FALSE, default, rest), 0)
    /\ used = null
    /\ pc = "traverse"
    /\ diagnostics = <<>>
    /\ MetaIdle
    /\ OptionsIdle
    /\ ImportsIdle
    /\ FlattenIdle

Classify ==
    /\ pc = "traverse"
    /\ used' = parseUsedKindSpecifierVariables(declaration)
    /\ pc' = "done"
    /\ UNCHANGED <<optionVars, declaration, diagnostics, metaVars, importVars,
                   flattenVars>>

ClassifyNext == Classify

SpecClassify == ClassifyInit /\ [][ClassifyNext]_vars

\* ---------------------------------------------------- flattenExpressions
\* The expressions flattenExpressions is called on, written at position
\* loc: identifiers of every kind of binding, nodes of other types, and
\* conditional expressions of them nested up to n deep.
FlattenLeaves(loc) ==
    {Identifier(name, loc) :
        name \in {"context", "importedMeta", "fixableMeta", "letMeta",
                  "maybeMeta", "uninit", "twice", "alias", "picked",
                  "second", "selfRef", "cycleA", "ruleMeta"}}
    \cup {ObjectExpression(<<>>), StringLiteral("code"), OpaqueExpression,
          FunctionValue}
RECURSIVE Expressions(_, _)
Expressions(loc, n) ==
    FlattenLeaves(loc)
    \cup (IF n = 0 THEN {}
          ELSE {ConditionalExpression(c, a) :
                   c \in Expressions(Append(loc, 1), n - 1),
                   a \in Expressions(Append(loc, 2), n - 1)})

\* A call of flattenExpressions on node, `depth` calls deep
FlattenCall(node, depth) == [node |-> node, depth |-> depth]

FlattenInit ==
    /\ expression \in Expressions(<<1>>, MaxNesting)
    /\ pending = <<FlattenCall(expression, 1)>>
    /\ yielded = <<>>
    /\ pc = "flatten"
    /\ diagnostics = <<>>
    /\ MetaIdle
    /\ OptionsIdle
    /\ ImportsIdle
    /\ ClassifyIdle

\* Whether the call makes calls: it is on an identifier of an initialised
\* const (lines 77-86) or on a conditional expression (line 90)
FlattenRecurses(call) ==
    \/ call.node.type = "Identifier" /\ InitializerOf(call.node) # null
    \/ call.node.type = "ConditionalExpression"

\* A call on an identifier of an initialised const: it goes on with the
\* initializer (lines 77-89)
FlattenIdentifier ==
    /\ pc = "flatten"
    /\ pending # <<>>
    /\ Head(pending).node.type = "Identifier"
    /\ InitializerOf(Head(pending).node) # null
    /\ Head(pending).depth < MaxStack
    /\ pending' = <<FlattenCall(InitializerOf(Head(pending).node),
                                Head(pending).depth + 1)>>
                  \o Tail(pending)
    /\ UNCHANGED <<optionVars, expression, yielded, diagnostics, pc, metaVars,
                   importVars, classifyVars>>

\* A call on a conditional expression: the consequent, then the alternate
\* (lines 90-94)
FlattenConditional ==
    /\ pc = "flatten"
    /\ pending # <<>>
    /\ Head(pending).node.type = "ConditionalExpression"
    /\ Head(pending).depth < MaxStack
    /\ pending' = <<FlattenCall(Head(pending).node.consequent,
                                Head(pending).depth + 1),
                    FlattenCall(Head(pending).node.alternate,
                                Head(pending).depth + 1)>>
                  \o Tail(pending)
    /\ UNCHANGED <<optionVars, expression, yielded, diagnostics, pc, metaVars,
                   importVars, classifyVars>>

\* A call on any other node: it yields the node (line 95)
FlattenYield ==
    /\ pc = "flatten"
    /\ pending # <<>>
    /\ ~FlattenRecurses(Head(pending))
    /\ yielded' = Append(yielded, Head(pending).node)
    /\ pending' = Tail(pending)
    /\ UNCHANGED <<optionVars, expression, diagnostics, pc, metaVars, importVars,
                   classifyVars>>

\* A call that makes a call with the stack full: the engine throws a
\* RangeError, which nothing catches
FlattenOverflow ==
    /\ pc = "flatten"
    /\ pending # <<>>
    /\ FlattenRecurses(Head(pending))
    /\ Head(pending).depth >= MaxStack
    /\ pc' = "crashed"
    /\ UNCHANGED <<optionVars, flattenVars, diagnostics, metaVars, importVars,
                   classifyVars>>

\* The outermost call returns
FlattenReturn ==
    /\ pc = "flatten"
    /\ pending = <<>>
    /\ pc' = "done"
    /\ UNCHANGED <<optionVars, flattenVars, diagnostics, metaVars, importVars,
                   classifyVars>>

FlattenNext ==
    \/ FlattenIdentifier
    \/ FlattenConditional
    \/ FlattenYield
    \/ FlattenOverflow
    \/ FlattenReturn

SpecFlatten == FlattenInit /\ [][FlattenNext]_vars
\* Every call that is made goes on: the generator is consumed to its end
FairSpecFlatten == SpecFlatten /\ WF_vars(FlattenNext)

\* ----------------------------------------------------- iterateProperties
\* The elements an iterated object literal is written with at position
\* loc: properties, a method, and spreads of an undeclared name, of const
\* object literals, of a let binding, of conditionals with one, two or no
\* object-literal branch, and of an object literal that has a spread.
IterateElements(loc) ==
    {Property("fixable", StringLiteral("code"), loc),
     Property("fix", FunctionValue, loc),
     MethodDefinition("fix", loc),
     SpreadElement(Identifier("ruleMeta", loc), loc),
     SpreadElement(Identifier("fixableMeta", loc), loc),
     SpreadElement(Identifier("letMeta", loc), loc),
     SpreadElement(Identifier("maybeMeta", loc), loc),
     SpreadElement(Identifier("bothKeys", loc), loc),
     SpreadElement(ConditionalExpression(
                       Identifier("ruleMeta", Append(loc, 1)),
                       Identifier("importedMeta", Append(loc, 2))), loc),
     SpreadElement(ObjectExpression(
                       <<SpreadElement(Identifier("maybeMeta", Append(loc, 1)),
                                       Append(loc, 1)),
                         Property("hasSuggestions", BooleanLiteral(TRUE),
                                  Append(loc, 2))>>), loc)}
RECURSIVE IterateProperties(_, _)
IterateProperties(loc, n) ==
    IF n = 0 THEN {<<>>}
    ELSE {Append(props, element) :
             props \in IterateProperties(loc, n - 1),
             element \in IterateElements(Append(loc, n))}

IterateInit ==
    /\ \E n \in 0..MaxIterProps :
          \E props \in IterateProperties(<<1>>, n) :
              expression = ObjectExpression(props)
    /\ pending = <<>>
    /\ yielded = <<>>
    /\ pc = "iterate"
    /\ diagnostics = <<>>
    /\ MetaIdle
    /\ OptionsIdle
    /\ ImportsIdle
    /\ ClassifyIdle

\* for (const prop of iterateProperties(expression)): all it yields
Iterate ==
    /\ pc = "iterate"
    /\ yielded' = iterateProperties(expression)
    /\ pc' = "done"
    /\ UNCHANGED <<optionVars, expression, pending, diagnostics, metaVars, importVars,
                   classifyVars>>

IterateNext == Iterate

SpecIterate == IterateInit /\ [][IterateNext]_vars

\* ------------------------------------------- getFixesNamedSpecifiers
\* The call of getFixesNamedSpecifiers in fixToTypeImport (line 674), for
\* a reported declaration `import [D,] { ... } from 'm1'` of up to
\* MaxExtractNamed named specifiers that reaches the call: some specifier is
\* type-only, and the declaration is not one that fixToTypeImport turns into
\* a type import as a whole.
ReachesNamedSpecifierFixes(node) ==
    LET types == Elements(parseUsedKindSpecifierVariables(node).typeSpecifiers)
    IN  /\ types # {}
        /\ ~(/\ DefaultSpecifierOf(node) = null
             /\ \A x \in Elements(NamedSpecifiersOf(node)) : x \in types)

ExtractInit ==
    /\ \E default \in DefaultChoices({LocalName(1, 1)}, UsageSamples) :
       \E n \in 1..MaxExtractNamed :
       \E named \in NamedOfLength(UsageSamples, 1, FirstAfter(default), n) :
         LET node == ImportDeclaration(
                         ImportShape("value", "m1", FALSE, default,
                                     [namespace |-> null, named |-> named,
                                      braces |-> TRUE]), 0)
         IN  /\ ReachesNamedSpecifierFixes(node)
             /\ declaration = node
    /\ used = null
    /\ pc = "extract"
    /\ diagnostics = <<>>
    /\ MetaIdle
    /\ OptionsIdle
    /\ ImportsIdle
    /\ FlattenIdle

\* typeNamedSpecifiers and the call; `yielded` takes the removals
Extract ==
    /\ pc = "extract"
    /\ LET classified == parseUsedKindSpecifierVariables(declaration)
           namedSpecifiers == NamedSpecifiersOf(declaration)
           typeNamedSpecifiers ==
               Filter(namedSpecifiers, Elements(classified.typeSpecifiers))
           fixes == getFixesNamedSpecifiers(declaration, typeNamedSpecifiers,
                                            namedSpecifiers)
       IN  /\ used' = classified
           /\ yielded' = fixes.removeTypeNamedSpecifiers
           /\ pc' = IF fixes.thrown # <<>> THEN "crashed" ELSE "done"
    /\ UNCHANGED <<optionVars, declaration, diagnostics, metaVars, importVars,
                   expression, pending>>

ExtractNext == Extract

SpecExtract == ExtractInit /\ [][ExtractNext]_vars

\* ----------------------------------------------------- fixCombinImports
\* One call fixCombinImports(fixer, { node, toNode }, sourceCode) on two
\* declarations of one module, toNode written first: each of either kind,
\* with a default import, a namespace import or a named import, or a default
\* import followed by one of the others.  `declaration` is node, `program`
\* the two declarations in text order, `yielded` what the generator yields.
CombineCallInit ==
    /\ \E toKind \in {"value", "type"}, kind \in {"value", "type"} :
       \E toDefault \in DefaultChoices({LocalName(1, 1)}, {<<TypeReference>>}),
          default \in DefaultChoices({LocalName(2, 1)}, {<<TypeReference>>}) :
       \E toRest \in ClauseRests({<<TypeReference>>}, 1,
                                 FirstAfter(toDefault)),
          rest \in ClauseRests({<<TypeReference>>}, 2, FirstAfter(default)) :
         LET toNode == ImportDeclaration(
                           ImportShape(toKind, "m1", FALSE, toDefault,
                                       toRest), 0)
             node == ImportDeclaration(
                         ImportShape(kind, "m1", FALSE, default, rest),
                         toNode.range[2] + 1)
         IN  /\ Len(toRest.named) <= MaxCombineNamed
             /\ Len(rest.named) <= MaxCombineNamed
             /\ Len(toNode.specifiers) > 0
             /\ Len(node.specifiers) > 0
             /\ program = <<toNode, node>>
             /\ declaration = node
    /\ used = null
    /\ pc = "fix"
    /\ diagnostics = <<>>
    /\ prefer = "none"
    /\ disallowTypeAnnotations = FALSE
    /\ sourceImportsMap = <<>>
    /\ inherited = [typeOnlyNamedImport |-> null]
    /\ MetaIdle
    /\ OptionsIdle
    /\ FlattenIdle

CombineCall ==
    /\ pc = "fix"
    /\ yielded' = fixCombinImports(declaration, program[1])
    /\ pc' = IF Threw(yielded') THEN "crashed" ELSE "done"
    /\ UNCHANGED <<optionVars, diagnostics, metaVars, importVars, classifyVars,
                   expression, pending>>

CombineCallNext == CombineCall

SpecCombineCall == CombineCallInit /\ [][CombineCallNext]_vars

\* -------------------------------------------- no-restricted-imports
\* Option values: a string, an object with its own properties (a function
\* from their names), undefined; arrays are sequences.
String(value) == [typeof |-> "string", value |-> value]
Object(props) == [typeof |-> "object", props |-> props]
undefined == [typeof |-> "undefined"]
In(key, object) == key \in DOMAIN object.props
Get(object, key) == IF In(key, object) THEN object.props[key] ELSE undefined
\* object[key] ?? default
GetOr(object, key, default) ==
    IF In(key, object) THEN object.props[key] ELSE default

\* isCompositeOption(option)
isCompositeOption(option) ==
    option.typeof # "string" /\ (In("path", option) \/ In("patterns", option))

\* parsePathOption(pathOption)
parsePathOption(pathOption) ==
    IF pathOption.typeof = "string"
    THEN [name |-> pathOption, importKind |-> String("all")]
    ELSE [name |-> Get(pathOption, "name"),
          importKind |-> GetOr(pathOption, "importKind", String("all")),
          importNames |->
              IF /\ In("importNames", pathOption)
                 /\ Len(Get(pathOption, "importNames")) > 0
              THEN Elements(Get(pathOption, "importNames"))
              ELSE null,
          customMessage |-> Get(pathOption, "message")]

\* The pattern groups of one composite option: one for each object pattern,
\* then one of all string patterns if there are any.  ignore().add(...) is
\* the matcher of the patterns added.
PatternGroupsOf(patterns) ==
    LET stringPatterns ==
            Filter(patterns, {x \in Elements(patterns) : x.typeof = "string"})
        groups ==
            Filter(patterns, {x \in Elements(patterns) : x.typeof # "string"})
    IN  [i \in DOMAIN groups |->
            [matcher |-> Get(groups[i], "group"),
             importKind |-> GetOr(groups[i], "importKind", String("all")),
             customMessage |-> Get(groups[i], "message")]]
        \o (IF Len(stringPatterns) > 0
            THEN <<[matcher |-> stringPatterns, importKind |-> String("all")]>>
            ELSE <<>>)

\* parseOptions(options)
RECURSIVE parseOptions(_)
parseOptions(opts) ==
    IF opts = <<>>
    THEN [restrictedPaths |-> <<>>, restrictedPatternGroups |-> <<>>]
    ELSE LET option == opts[Len(opts)]
             before == parseOptions(SubSeq(opts, 1, Len(opts) - 1))
             paths == GetOr(option, "paths", <<>>)
             patterns == GetOr(option, "patterns", <<>>)
         IN  IF isCompositeOption(option)
             THEN [restrictedPaths |->
                       before.restrictedPaths
                       \o [i \in DOMAIN paths |-> parsePathOption(paths[i])],
                   restrictedPatternGroups |->
                       before.restrictedPatternGroups
                       \o PatternGroupsOf(patterns)]
             ELSE [restrictedPaths |->
                       Append(before.restrictedPaths, parsePathOption(option)),
                   restrictedPatternGroups |->
                       before.restrictedPatternGroups]

\* The options the schema admits: an array of at most MaxOptions different
\* path options, or an array of one composite object whose `paths` and
\* `patterns`, if written, are arrays of at most MaxOptions different
\* entries (patterns all strings or all objects).
PathOptions ==
    {String("foo"),
     Object("name" :> String("bar")),
     Object(("name" :> String("baz")) @@ ("importKind" :> String("type"))
            @@ ("message" :> String("no")) @@ ("importNames" :> <<String("x")>>))}
StringPatterns == {String("p/*"), String("q/*")}
ObjectPatterns ==
    {Object("group" :> <<String("g/*")>>),
     Object(("group" :> <<String("h/*")>>) @@ ("importKind" :> String("value"))
            @@ ("message" :> String("no")))}
RECURSIVE ArraysOf(_, _)
ArraysOf(entries, n) ==
    IF n = 0 THEN {<<>>}
    ELSE ArraysOf(entries, n - 1)
         \cup {Append(a, x) : a \in {b \in ArraysOf(entries, n - 1) :
                                        Len(b) = n - 1},
                              x \in entries}
UniqueArraysOf(entries, n) ==
    {a \in ArraysOf(entries, n) :
        \A i, j \in DOMAIN a : i # j => a[i] # a[j]}
CompositeOptions ==
    {Object(paths @@ patterns) :
        paths \in {<<>>} \cup {"paths" :> a :
                                  a \in UniqueArraysOf(PathOptions, MaxOptions)},
        patterns \in {<<>>}
            \cup {"patterns" :> a :
                     a \in UniqueArraysOf(StringPatterns, MaxOptions)
                           \cup UniqueArraysOf(ObjectPatterns, MaxOptions)}}
OptionsInputs ==
    UniqueArraysOf(PathOptions, MaxOptions)
    \cup {<<composite>> : composite \in CompositeOptions}

\* The rule is created with context.options
OptionsInit ==
    /\ options \in OptionsInputs
    /\ restrictedPaths = <<>>
    /\ restrictedPatternGroups = <<>>
    /\ pc = "create"
    /\ diagnostics = <<>>
    /\ MetaIdle
    /\ ImportsIdle
    /\ ClassifyIdle
    /\ FlattenIdle

\* create(context): the call of parseOptions
ParseOptions ==
    /\ pc = "create"
    /\ restrictedPaths' = parseOptions(options).restrictedPaths
    /\ restrictedPatternGroups' = parseOptions(options).restrictedPatternGroups
    /\ pc' = "done"
    /\ UNCHANGED <<options, diagnostics, metaVars, importVars, classifyVars,
                   flattenVars>>

OptionsNext == ParseOptions

SpecOptions == OptionsInit /\ [][OptionsNext]_vars

\* ------------------------------------------------ consistent-type-imports
\* create(context, [option]) for `type-imports` and `no-type-imports`
ImportsInit ==
    /\ prefer \in {"type-imports", "no-type-imports"}
    /\ disallowTypeAnnotations \in BOOLEAN
    /\ sourceImportsMap = <<>>
    /\ inherited = [typeOnlyNamedImport |-> null]
    /\ program = <<>>
    /\ diagnostics = <<>>
    /\ pc = "traverse"
    /\ MetaIdle
    /\ OptionsIdle
    /\ ClassifyIdle
    /\ FlattenIdle

\* Where the next node of the program starts: on the line after the last
NextStart ==
    IF program = <<>> THEN 0 ELSE program[Len(program)].range[2] + 1

VisitImportDeclaration ==
    /\ pc = "traverse"
    /\ Len(program) < DeclBound(prefer)
    /\ \E kind \in {"value", "type"}, source \in SourceChoices(prefer),
          comment \in CommentChoices(prefer) :
       \E default \in DefaultChoices(
                          DefaultNames(prefer, Len(program) + 1),
                          UsageChoices(prefer, kind)) :
       \E rest \in ClauseRests(UsageChoices(prefer, kind),
                               Len(program) + 1, FirstAfter(default)) :
         LET shape == ImportShape(kind, source, comment, default, rest)
             node == ImportDeclaration(shape, NextStart)
             after == TypeImportsImportDeclaration(sourceImportsMap,
                                                   inherited, node)
             combined == CombineImportDeclaration(sourceImportsMap, node)
         IN  /\ kind = "type" => HasClause(shape)
             /\ Len(rest.named) <= NamedBound(prefer)
             /\ program' = Append(program, node)
             /\ IF prefer = "type-imports"
                THEN /\ sourceImportsMap' = after.map
                     /\ inherited' = after.inherited
                     /\ pc' = IF after.threw THEN "crashed" ELSE pc
                     /\ UNCHANGED diagnostics
                ELSE IF prefer = "no-type-imports"
                THEN /\ diagnostics' =
                          diagnostics \o NoTypeImportsImportDeclaration(node)
                     /\ UNCHANGED <<sourceImportsMap, inherited, pc>>
                ELSE /\ sourceImportsMap' = combined.map
                     /\ pc' = IF combined.threw THEN "crashed" ELSE pc
                     /\ UNCHANGED <<diagnostics, inherited>>
    /\ UNCHANGED <<optionVars, prefer, disallowTypeAnnotations, metaVars, classifyVars, flattenVars>>

VisitTSImportType ==
    /\ pc = "traverse"
    /\ Len(program) < DeclBound(prefer)
    /\ LET node == TSImportTypeNode(NextStart) IN
         /\ program' = Append(program, node)
         /\ diagnostics' = IF disallowTypeAnnotations
                           THEN diagnostics \o TSImportTypeHandler(node)
                           ELSE diagnostics
    /\ UNCHANGED <<optionVars, pc, prefer, disallowTypeAnnotations, sourceImportsMap,
                   inherited, metaVars, classifyVars, flattenVars>>

ImportsProgramExit ==
    /\ pc = "traverse"
    /\ diagnostics' = IF prefer = "type-imports"
                      THEN diagnostics
                           \o TypeImportsProgramExit(sourceImportsMap)
                      ELSE IF prefer = "type-imports-combine"
                      THEN diagnostics
                           \o CombineProgramExit(sourceImportsMap)
                      ELSE diagnostics
    /\ pc' = "done"
    /\ UNCHANGED <<optionVars, importVars, metaVars, classifyVars, flattenVars>>

ImportsNext ==
    VisitImportDeclaration \/ VisitTSImportType \/ ImportsProgramExit

SpecImports == ImportsInit /\ [][ImportsNext]_vars

\* create(context, [option]) for `type-imports-combine`, with the default
\* disallowTypeAnnotations
CombineInit ==
    /\ prefer = "type-imports-combine"
    /\ disallowTypeAnnotations = TRUE
    /\ sourceImportsMap = <<>>
    /\ inherited = [typeOnlyNamedImport |-> null]
    /\ program = <<>>
    /\ diagnostics = <<>>
    /\ pc = "traverse"
    /\ MetaIdle
    /\ OptionsIdle
    /\ ClassifyIdle
    /\ FlattenIdle

SpecCombine == CombineInit /\ [][ImportsNext]_vars

\* ================================================ claims: valid-rule-meta
\* The nodes of the diagnostics emitted with the given message, in order.
RECURSIVE NodesOf(_, _)
NodesOf(ds, messageId) ==
    IF ds = <<>> THEN <<>>
    ELSE (IF Head(ds).messageId = messageId THEN <<Head(ds).node>> ELSE <<>>)
         \o NodesOf(Tail(ds), messageId)

PositiveIds == {"shouldBeFixable", "shouldBeSuggestable"}
NegativeIds == {"shouldNotBeFixable", "shouldNotBeSuggestable"}
RECURSIVE WithIds(_, _)
WithIds(ds, ids) ==
    IF ds = <<>> THEN <<>>
    ELSE (IF Head(ds).messageId \in ids THEN <<Head(ds)>> ELSE <<>>)
         \o WithIds(Tail(ds), ids)

\* The traversal is over and a rule object was recorded.
Reconciled == pc = "done" /\ ruleObject # null

\* What meta declares for a name: the last property of that name among the
\* logical properties of meta, or null.
Declared(name) == LastNamedProperty(iterateProperties(ruleObject.meta), name)
MetaHasUnresolvedSpread ==
    \E i \in 1..Len(iterateProperties(ruleObject.meta)) :
        iterateProperties(ruleObject.meta)[i].type = "SpreadElement"
IsNullOrUndefined(value) ==
    \/ value = NullLiteral
    \/ value.type = "Identifier" /\ value.name = "undefined"
IsStringLiteral(value) == value.type = "Literal" /\ value.value.tag = "string"
IsTrueLiteral(value) == value = BooleanLiteral(TRUE)

\* C1: when some matched report call passes `fix`, meta has no unresolved
\* spread, and meta declares no `fixable` or declares it null / undefined,
\* the shouldBeFixable diagnostics are exactly the collected `fix` keys, one
\* diagnostic per key, anchored at that key.
C1_Pre ==
    /\ Reconciled
    /\ Len(ruleObject.report.fixNodes) >= 1
    /\ ~MetaHasUnresolvedSpread
    /\ \/ Declared("fixable") = null
       \/ IsNullOrUndefined(Declared("fixable").value)
C1_ShouldBeFixable ==
    C1_Pre =>
        /\ NodesOf(diagnostics, "shouldBeFixable") = ruleObject.report.fixNodes
        /\ NodesOf(diagnostics, "shouldNotBeFixable") = <<>>
C1_Witness ==
    /\ C1_Pre
    /\ Len(ruleObject.report.fixNodes) >= 2
    /\ Declared("fixable") # null
    /\ Declared("fixable").value.type = "Identifier"

\* C2: when a report call matched, none passes `fix`, none was shape-unknown
\* and meta declares `fixable` as a string literal, exactly one
\* shouldNotBeFixable is emitted, anchored at that `fixable` property.
C2_Pre ==
    /\ Reconciled
    /\ ruleObject.report.found
    /\ ruleObject.report.fixNodes = <<>>
    /\ ~ruleObject.report.hasUnknown
    /\ Declared("fixable") # null
    /\ IsStringLiteral(Declared("fixable").value)
C2_ShouldNotBeFixable ==
    C2_Pre =>
        /\ NodesOf(diagnostics, "shouldNotBeFixable") = <<Declared("fixable")>>
        /\ NodesOf(diagnostics, "shouldBeFixable") = <<>>
C2_Witness == C2_Pre /\ "CallExpression" \in {visited[i] : i \in DOMAIN visited}

\* C3: when some matched report call passes `suggest`, meta has no unresolved
\* spread, and meta declares no `hasSuggestions` or declares it as a literal
\* other than true, the shouldBeSuggestable diagnostics are exactly the
\* collected `suggest` keys.
C3_Pre ==
    /\ Reconciled
    /\ Len(ruleObject.report.suggestNodes) >= 1
    /\ ~MetaHasUnresolvedSpread
    /\ \/ Declared("hasSuggestions") = null
       \/ /\ Declared("hasSuggestions").value.type = "Literal"
          /\ ~IsTrueLiteral(Declared("hasSuggestions").value)
C3_ShouldBeSuggestable ==
    C3_Pre =>
        /\ NodesOf(diagnostics, "shouldBeSuggestable")
               = ruleObject.report.suggestNodes
        /\ NodesOf(diagnostics, "shouldNotBeSuggestable") = <<>>
C3_Witness ==
    /\ C3_Pre
    /\ Len(ruleObject.report.suggestNodes) >= 2
    /\ Declared("hasSuggestions") # null

\* C4: when a report call matched, none passes `suggest`, none was
\* shape-unknown and meta declares `hasSuggestions` as the literal true,
\* exactly one shouldNotBeSuggestable is emitted, anchored at that property.
C4_Pre ==
    /\ Reconciled
    /\ ruleObject.report.found
    /\ ruleObject.report.suggestNodes = <<>>
    /\ ~ruleObject.report.hasUnknown
    /\ Declared("hasSuggestions") # null
    /\ IsTrueLiteral(Declared("hasSuggestions").value)
C4_ShouldNotBeSuggestable ==
    C4_Pre =>
        /\ NodesOf(diagnostics, "shouldNotBeSuggestable")
               = <<Declared("hasSuggestions")>>
        /\ NodesOf(diagnostics, "shouldBeSuggestable") = <<>>
C4_Witness ==
    /\ C4_Pre
    /\ Len(ruleObject.report.fixNodes) >= 1

\* C5: a shape-unknown report call suppresses the two negative diagnostics
\* and nothing else: with hasUnknown set no shouldNotBe* is emitted, and
\* the shouldBe* diagnostics are those the same findings give with
\* hasUnknown flipped.
FlippedUnknown ==
    [ruleObject EXCEPT !.report.hasUnknown = ~ruleObject.report.hasUnknown]
C5_UnknownSuppressesOnlyNegative ==
    Reconciled =>
        /\ ruleObject.report.hasUnknown =>
               WithIds(diagnostics, NegativeIds) = <<>>
        /\ WithIds(diagnostics, PositiveIds)
               = WithIds(ProgramExitDiagnostics(FlippedUnknown), PositiveIds)
C5_Witness ==
    /\ Reconciled
    /\ ruleObject.report.hasUnknown
    /\ NodesOf(diagnostics, "shouldBeFixable") # <<>>
    /\ NodesOf(ProgramExitDiagnostics(FlippedUnknown),
               "shouldNotBeSuggestable") # <<>>

\* C6 as stated: whenever meta is written `{ ...identifier }`, no diagnostic
\* is emitted, whatever the report calls pass.
MetaIsIdentifierSpread ==
    /\ Len(ruleObject.meta.properties) = 1
    /\ ruleObject.meta.properties[1].type = "SpreadElement"
    /\ ruleObject.meta.properties[1].argument.type = "Identifier"
C6_AnyIdentifierSpreadSilent ==
    (Reconciled /\ MetaIsIdentifierSpread) => diagnostics = <<>>

\* C6 amended: when meta is written `{ ...identifier }` and no candidate of
\* the flattening of the identifier is an object literal (the spread stays
\* unresolved), no diagnostic is emitted, whatever the report calls pass.
SpreadStaysUnresolved ==
    LET exprs == flattenExpressions(ruleObject.meta.properties[1].argument)
    IN  \A i \in 1..Len(exprs) : exprs[i].type # "ObjectExpression"
C6_UnresolvedSpreadSilent ==
    (Reconciled /\ MetaIsIdentifierSpread /\ SpreadStaysUnresolved)
        => diagnostics = <<>>
C6_Witness ==
    /\ Reconciled
    /\ MetaIsIdentifierSpread
    /\ SpreadStaysUnresolved
    /\ ruleObject.report.fixNodes # <<>>
    /\ ruleObject.report.suggestNodes # <<>>

\* C7: when no report call on the create function's first parameter was
\* met (found is false), Program:exit emits nothing, whatever meta declares.
C7_NoReportCallNoDiagnostic ==
    (Reconciled /\ ~ruleObject.report.found) => diagnostics = <<>>
C7_Witness ==
    /\ Reconciled
    /\ ~ruleObject.report.found
    /\ "CallExpression" \in {visited[i] : i \in DOMAIN visited}
    /\ Declared("fixable") # null
    /\ IsStringLiteral(Declared("fixable").value)
    /\ Declared("hasSuggestions") # null
    /\ IsTrueLiteral(Declared("hasSuggestions").value)

\* ========================================= claims: consistent-type-imports
\* How often x occurs in a sequence
Occurrences(seq, x) == Cardinality({i \in DOMAIN seq : seq[i] = x})

\* C8: once parseUsedKindSpecifierVariables has been applied to a
\* declaration, typeSpecifiers, valueSpecifiers and unusedSpecifiers are
\* pairwise disjoint, every specifier of the declaration is in exactly one of
\* them exactly once, and they hold nothing but specifiers of the declaration.
Classified == declaration # null /\ used # null
C8_BucketsPartitionSpecifiers ==
    Classified =>
        LET all == used.typeSpecifiers \o used.valueSpecifiers
                   \o used.unusedSpecifiers
        IN  /\ Elements(used.typeSpecifiers)
                   \cap Elements(used.valueSpecifiers) = {}
            /\ Elements(used.typeSpecifiers)
                   \cap Elements(used.unusedSpecifiers) = {}
            /\ Elements(used.valueSpecifiers)
                   \cap Elements(used.unusedSpecifiers) = {}
            /\ Elements(all) = Elements(declaration.specifiers)
            /\ \A x \in Elements(declaration.specifiers) :
                   Occurrences(all, x) = 1
C8_Witness ==
    /\ Classified
    /\ Len(declaration.specifiers) = 3
    /\ Len(used.typeSpecifiers) = 1
    /\ Len(used.valueSpecifiers) = 1
    /\ Len(used.unusedSpecifiers) = 1

\* The diagnostics reported on a node, in order
RECURSIVE DiagnosticsOn(_, _)
DiagnosticsOn(ds, node) ==
    IF ds = <<>> THEN <<>>
    ELSE (IF Head(ds).node = node THEN <<Head(ds)>> ELSE <<>>)
         \o DiagnosticsOn(Tail(ds), node)

\* How a specifier's binding is used in the file
IsUnused(specifier) == specifier.variable.references = <<>>
IsTypeOnly(specifier) ==
    /\ ~IsUnused(specifier)
    /\ \A r \in Elements(specifier.variable.references) :
           IF r.isValueReference
           THEN \E k \in DOMAIN r.parents :
                    /\ r.parents[k] = "TSTypeQuery"
                    /\ \A j \in 1..(k - 1) : r.parents[j] = "TSQualifiedName"
           ELSE r.isTypeReference
IsValueUsing(specifier) == ~IsUnused(specifier) /\ ~IsTypeOnly(specifier)
TypeOnlyCount(node) ==
    Cardinality({i \in DOMAIN node.specifiers : IsTypeOnly(node.specifiers[i])})
ImportDeclarations ==
    {n \in Elements(program) : n.type = "ImportDeclaration"}

\* C9: under `type-imports`, once Program:exit has run, every value import
\* declaration with at least one type-only specifier has exactly one
\* diagnostic and every other import declaration has none; the diagnostic is
\* typeOverValue when no specifier of the declaration is value-using or
\* unused, otherwise aImportIsOnlyTypes when exactly one specifier is
\* type-only and someImportsAreOnlyTypes when more are.
C9_Expected(node) ==
    IF \A i \in DOMAIN node.specifiers : IsTypeOnly(node.specifiers[i])
    THEN "typeOverValue"
    ELSE IF TypeOnlyCount(node) = 1 THEN "aImportIsOnlyTypes"
    ELSE "someImportsAreOnlyTypes"
C9_TypeImportsDiagnostics ==
    (prefer = "type-imports" /\ pc = "done") =>
        \A node \in ImportDeclarations :
            LET on == DiagnosticsOn(diagnostics, node) IN
            IF node.importKind = "value" /\ TypeOnlyCount(node) >= 1
            THEN Len(on) = 1 /\ on[1].messageId = C9_Expected(node)
            ELSE on = <<>>
C9_Witness ==
    /\ prefer = "type-imports"
    /\ pc = "done"
    /\ \E d \in Elements(diagnostics) : d.messageId = "typeOverValue"
    /\ \E d \in Elements(diagnostics) :
           /\ d.messageId = "someImportsAreOnlyTypes"
           /\ \E i \in DOMAIN d.node.specifiers :
                  IsUnused(d.node.specifiers[i])

\* C10: under `no-type-imports`, every visited import declaration of kind
\* `type` has exactly one diagnostic, valueOverType, whose fix is one removal
\* from the start of the `type` token (the token after `import`) to the
\* start of the token or comment after it; a value import has no diagnostic.
C10_NoTypeImportsDiagnostics ==
    prefer = "no-type-imports" =>
        \A node \in ImportDeclarations :
            LET on == DiagnosticsOn(diagnostics, node) IN
            IF node.importKind = "type"
            THEN /\ Len(on) = 1
                 /\ on[1].messageId = "valueOverType"
                 /\ node.tokens[2].value = "type"
                 /\ on[1].fix = [range |-> <<node.tokens[2].range[1],
                                            node.tokens[3].range[1]>>,
                                 text |-> ""]
            ELSE on = <<>>
C10_Witness ==
    /\ prefer = "no-type-imports"
    /\ \E node \in ImportDeclarations :
           /\ node.importKind = "type"
           /\ node.tokens[3].type = "Block"
           /\ node.specifiers # <<>>
           /\ node.specifiers[1].local.name = "type"
           /\ DiagnosticsOn(diagnostics, node) # <<>>
    /\ \E node \in ImportDeclarations :
           /\ node.importKind = "value"
           /\ node.specifiers # <<>>
           /\ node.specifiers[1].local.name = "type"

\* The import declarations of the program from `source` that have
\* specifiers, in declaration order
GroupOf(source) ==
    Filter(program, {n \in ImportDeclarations :
                        n.source.value = source /\ n.specifiers # <<>>})
Sources == {n.source.value : n \in ImportDeclarations}
SpecifiersOfGroup(group) ==
    UNION {Elements(group[i].specifiers) : i \in DOMAIN group}

\* The specifier kind of a declaration: default before namespace before named
KindOf(node) ==
    IF \E x \in Elements(node.specifiers) : x.type = "ImportDefaultSpecifier"
    THEN "default"
    ELSE IF \E x \in Elements(node.specifiers) :
                x.type = "ImportNamespaceSpecifier"
    THEN "namespace"
    ELSE "named"

\* The type-only declarations of the kind of group[j] before group[j]
EarlierOfKind(group, j) ==
    Filter(SubSeq(group, 1, j - 1),
           {n \in Elements(group) : /\ n.importKind = "type"
                                    /\ KindOf(n) = KindOf(group[j])})

\* C11: under `type-imports-combine`, once Program:exit has run, in a group
\* whose specifiers are all type-only, a type-only declaration that is the
\* first of its kind has no diagnostic, and every later one of the kind has
\* exactly one, duplicateTypeImports, whose merge (when one is made) goes
\* into the first declaration of the kind.
C11_DuplicatesMergeIntoFirst ==
    (prefer = "type-imports-combine" /\ pc = "done") =>
        \A source \in Sources :
            LET group == GroupOf(source) IN
            (\A x \in SpecifiersOfGroup(group) : IsTypeOnly(x)) =>
                \A j \in DOMAIN group :
                    group[j].importKind = "type" =>
                        LET on == DiagnosticsOn(diagnostics, group[j])
                            earlier == EarlierOfKind(group, j)
                        IN  IF earlier = <<>> THEN on = <<>>
                            ELSE /\ Len(on) = 1
                                 /\ on[1].messageId = "duplicateTypeImports"
                                 /\ on[1].fix.generator = "fixCombinImports"
                                        => on[1].fix.toNode = earlier[1]

\* Whether a declaration has a specifier of the type
HasSpecifier(node, type) == \E x \in Elements(node.specifiers) : x.type = type

\* C12's conflict of a value import with a record having type-only specifiers
Conflicts(value, record) ==
    \/ /\ HasSpecifier(value, "ImportDefaultSpecifier")
       /\ HasSpecifier(record, "ImportDefaultSpecifier")
    \/ /\ \/ HasSpecifier(value, "ImportNamespaceSpecifier")
          \/ HasSpecifier(value, "ImportSpecifier")
       /\ HasSpecifier(record, "ImportNamespaceSpecifier")
    \/ /\ HasSpecifier(value, "ImportNamespaceSpecifier")
       /\ HasSpecifier(record, "ImportSpecifier")
CompatibleValues(group, record) ==
    Filter(group, {v \in Elements(group) :
                      v.importKind = "value" /\ ~Conflicts(v, record)})

\* C12: under `type-imports-combine`, once Program:exit has run, in a group
\* with a value-using specifier, a record with a type-only specifier has
\* exactly one diagnostic, mustBeOneImport merging into the earliest
\* compatible value import of the group, when there is such an import, and
\* no diagnostic when there is none.
C12_MustBeOneImport ==
    (prefer = "type-imports-combine" /\ pc = "done") =>
        \A source \in Sources :
            LET group == GroupOf(source) IN
            (\E x \in SpecifiersOfGroup(group) : IsValueUsing(x)) =>
                \A j \in DOMAIN group :
                    TypeOnlyCount(group[j]) >= 1 =>
                        LET on == DiagnosticsOn(diagnostics, group[j])
                            compatible == CompatibleValues(group, group[j])
                        IN  IF compatible = <<>> THEN on = <<>>
                            ELSE /\ Len(on) = 1
                                 /\ on[1].messageId = "mustBeOneImport"
                                 /\ on[1].fix.toNode = compatible[1]
C12_Witness ==
    /\ prefer = "type-imports-combine"
    /\ pc = "done"
    /\ \E d \in Elements(diagnostics) :
           /\ d.messageId = "mustBeOneImport"
           /\ d.node.importKind = "type"
           /\ LET group == GroupOf(d.node.source.value) IN
              /\ Len(group) = 3
              /\ group[1].importKind = "value"
              /\ Conflicts(group[1], d.node)
              /\ d.fix.toNode = group[2]
    /\ \E d \in Elements(diagnostics) :
           d.messageId = "mustBeOneImport" /\ d.fix.toNode = d.node

\* The fixes a generator yielded, without what it threw
TextEdits(fixes) ==
    Filter(fixes, {f \in Elements(fixes) : "range" \in DOMAIN f})
IsInsertion(fix) == fix.range[1] = fix.range[2]

\* Two fixes of one diagnostic overlap: two removals or replacements whose
\* ranges intersect, or one whose range strictly contains an insertion
Overlap(f, g) ==
    IF IsInsertion(f) /\ IsInsertion(g) THEN FALSE
    ELSE IF IsInsertion(g)
    THEN f.range[1] < g.range[1] /\ g.range[1] < f.range[2]
    ELSE IF IsInsertion(f)
    THEN g.range[1] < f.range[1] /\ f.range[1] < g.range[2]
    ELSE f.range[1] < g.range[2] /\ g.range[1] < f.range[2]
NonOverlapping(fixes) ==
    \A i, j \in DOMAIN fixes : i < j => ~Overlap(fixes[i], fixes[j])

\* C13: the fixes of every diagnostic of consistent-type-imports are
\* mutually non-overlapping.
C13_FixesDoNotOverlap ==
    \A d \in Elements(diagnostics) : NonOverlapping(TextEdits(FixesOf(d)))

\* ------------------------------------------------ the linter's fix pass
\* The text of the program: its nodes, one per line
NodeText(node) ==
    IF node.type = "TSImportType" THEN "import('m1')" ELSE TextOf(node)
RECURSIVE TextOfNodes(_)
TextOfNodes(nodes) ==
    IF nodes = <<>> THEN ""
    ELSE IF Len(nodes) = 1 THEN NodeText(nodes[1])
    ELSE NodeText(nodes[1]) \o "\n" \o TextOfNodes(Tail(nodes))

\* The characters of text from offset from up to offset to, and the one
\* at offset pos; nothing past the end of the text
Chars(text, from, to) ==
    IF from >= Len(text) THEN ""
    ELSE SubSeq(text, from + 1, IF to > Len(text) THEN Len(text) ELSE to)
CharAt(text, pos) == Chars(text, pos, pos + 1)
WordChars ==
    {"a", "b", "c", "d", "e", "f", "g", "h", "i", "j", "k", "l", "m", "n",
     "o", "p", "q", "r", "s", "t", "u", "v", "w", "x", "y", "z",
     "A", "B", "C", "D", "E", "F", "G", "H", "I", "J", "K", "L", "M", "N",
     "O", "P", "Q", "R", "S", "T", "U", "V", "W", "X", "Y", "Z",
     "0", "1", "2", "3", "4", "5", "6", "7", "8", "9", "_", "$"}
PunctuatorChars == {",", "{", "}", "*", ";", "(", ")"}

\* The offset after the word, the string or the comment that starts at pos
RECURSIVE WordEnd(_, _)
WordEnd(text, pos) ==
    IF CharAt(text, pos) \in WordChars THEN WordEnd(text, pos + 1) ELSE pos
RECURSIVE StringEnd(_, _)
StringEnd(text, pos) ==
    IF CharAt(text, pos) \in {"'", ""} THEN pos + 1
    ELSE StringEnd(text, pos + 1)
RECURSIVE CommentEnd(_, _)
CommentEnd(text, pos) ==
    IF pos >= Len(text) \/ Chars(text, pos, pos + 2) = "*/"
    THEN pos + 2
    ELSE CommentEnd(text, pos + 1)

\* The tokens and comments of text from offset pos up to offset end
RECURSIVE LexLine(_, _, _)
LexLine(text, pos, end) ==
    LET c == CharAt(text, pos)
        Token(type, to) ==
            <<[type |-> type, value |-> Chars(text, pos, to),
               range |-> <<pos, to>>]>> \o LexLine(text, to, end)
    IN  IF pos >= end THEN <<>>
        ELSE IF c \in PunctuatorChars THEN Token("Punctuator", pos + 1)
        ELSE IF c = "'" THEN Token("String", StringEnd(text, pos + 1))
        ELSE IF Chars(text, pos, pos + 2) = "/*"
        THEN Token("Block", CommentEnd(text, pos + 2))
        ELSE IF c \in WordChars
        THEN LET to == WordEnd(text, pos) IN
             Token(IF Chars(text, pos, to) = "import"
                   THEN "Keyword" ELSE "Identifier", to)
        ELSE LexLine(text, pos + 1, end)

\* The tokens and comments of text, line by line (no token spans lines)
Lex(text) ==
    LET breaks == {p \in 0..(Len(text) - 1) : CharAt(text, p) = "\n"}
        starts == {0} \cup {p + 1 : p \in breaks}
        StartOf(i) ==
            CHOOSE p \in starts : Cardinality({q \in starts : q < p}) = i - 1
        EndOf(i) ==
            IF i = Cardinality(starts) THEN Len(text) ELSE StartOf(i + 1) - 1
    IN  Concat([i \in 1..Cardinality(starts) |->
                   LexLine(text, StartOf(i), EndOf(i))])

\* The first index from i on of a token of tokens with the value, 0 if none
RECURSIVE IndexOfValue(_, _, _)
IndexOfValue(tokens, value, i) ==
    IF i > Len(tokens) THEN 0
    ELSE IF tokens[i].value = value THEN i
    ELSE IndexOfValue(tokens, value, i + 1)

\* The node of one import declaration, given its tokens and comments and
\* the references of every binding
ParseImportDeclaration(all, references) ==
    LET words == Filter(all, {t \in Elements(all) : ~IsComment(t)})
        n == Len(words)
        isType == /\ n >= 4
                  /\ words[2].value = "type"
                  /\ words[3].value # ","
                  /\ (words[3].value = "from" => words[4].value = "from")
        first == IF isType THEN 3 ELSE 2
        hasClause == words[first].type # "String"
        clause == IF hasClause THEN SubSeq(words, first, n - 3) ELSE <<>>
        star == IndexOfValue(clause, "*", 1)
        open == IndexOfValue(clause, "{", 1)
        Local(token) ==
            [type |-> "Identifier", name |-> token.value,
             range |-> token.range]
        Specifier(type, token, range) ==
            [type |-> type, local |-> Local(token), range |-> range,
             variable |-> [references |-> references[token.value]]]
        named == IF open = 0 THEN <<>>
                 ELSE Filter(SubSeq(clause, open + 1, Len(clause)),
                             {t \in Elements(clause) : t.type = "Identifier"})
    IN  [type |-> "ImportDeclaration",
         importKind |-> IF isType THEN "type" ELSE "value",
         source |-> [type |-> "Literal",
                     value |-> SubSeq(words[n - 1].value, 2,
                                      Len(words[n - 1].value) - 1),
                     range |-> words[n - 1].range],
         specifiers |->
             (IF clause # <<>> /\ clause[1].type = "Identifier"
              THEN <<Specifier("ImportDefaultSpecifier", clause[1],
                               clause[1].range)>>
              ELSE <<>>)
             \o (IF star # 0
                 THEN <<Specifier("ImportNamespaceSpecifier",
                                  clause[star + 2],
                                  <<clause[star].range[1],
                                    clause[star + 2].range[2]>>)>>
                 ELSE <<>>)
             \o [i \in DOMAIN named |->
                    Specifier("ImportSpecifier", named[i], named[i].range)],
         range |-> <<all[1].range[1], all[Len(all)].range[2]>>,
         tokens |-> all]

\* The nodes of the program whose tokens from index i on are given: import
\* declarations, each up to its `;`, and import types `import('m1')`
RECURSIVE ParseNodes(_, _, _)
ParseNodes(tokens, i, references) ==
    IF i > Len(tokens) THEN <<>>
    ELSE IF i < Len(tokens) /\ tokens[i + 1].value = "("
    THEN <<[type |-> "TSImportType",
            range |-> <<tokens[i].range[1], tokens[i + 3].range[2]>>]>>
         \o ParseNodes(tokens, i + 4, references)
    ELSE LET end == IndexOfValue(tokens, ";", i) IN
         <<ParseImportDeclaration(SubSeq(tokens, i, end), references)>>
         \o ParseNodes(tokens, end + 1, references)
Parse(text, references) == ParseNodes(Lex(text), 1, references)

\* The references of every binding of the nodes, by its name
ReferencesOf(nodes) ==
    LET specifiers ==
            UNION {Elements(n.specifiers) :
                   n \in {m \in Elements(nodes) :
                              m.type = "ImportDeclaration"}}
    IN  [name \in {s.local.name : s \in specifiers} |->
            (CHOOSE s \in specifiers : s.local.name = name)
                .variable.references]

\* The diagnostics of strategy `type-imports` on nodes: the import
\* declarations visited in order, then Program:exit
RECURSIVE TypeImportsVisits(_, _)
TypeImportsVisits(state, nodes) ==
    IF nodes = <<>> \/ state.threw THEN state
    ELSE TypeImportsVisits(
             IF Head(nodes).type = "ImportDeclaration"
             THEN TypeImportsImportDeclaration(state.map, state.inherited,
                                               Head(nodes))
             ELSE state,
             Tail(nodes))
TypeImportsLint(nodes) ==
    LET state == TypeImportsVisits(
                     [map |-> <<>>, inherited |-> [typeOnlyNamedImport |-> null],
                      threw |-> FALSE],
                     nodes)
    IN  IF state.threw THEN <<>> ELSE TypeImportsProgramExit(state.map)

\* fixes sorted by start offset, then by end offset
FixBefore(f, g) ==
    \/ f.range[1] < g.range[1]
    \/ f.range[1] = g.range[1] /\ f.range[2] <= g.range[2]
RECURSIVE InsertByRange(_, _)
InsertByRange(sorted, fix) ==
    IF sorted = <<>> THEN <<fix>>
    ELSE IF FixBefore(Head(sorted), fix)
    THEN <<Head(sorted)>> \o InsertByRange(Tail(sorted), fix)
    ELSE <<fix>> \o sorted
RECURSIVE SortByRange(_)
SortByRange(fixes) ==
    IF fixes = <<>> THEN <<>>
    ELSE InsertByRange(SortByRange(SubSeq(fixes, 1, Len(fixes) - 1)),
                       fixes[Len(fixes)])

\* The text after the sorted fixes are applied, the last one first
RECURSIVE ApplySorted(_, _)
ApplySorted(text, sorted) ==
    IF sorted = <<>> THEN text
    ELSE LET fix == sorted[Len(sorted)] IN
         ApplySorted(SubSeq(text, 1, fix.range[1]) \o fix.text
                     \o SubSeq(text, fix.range[2] + 1, Len(text)),
                     SubSeq(sorted, 1, Len(sorted) - 1))

\* The one fix of a diagnostic: its fixes merged into a replacement of the
\* text from the first start to the last end
MergedFix(text, fixes) ==
    LET sorted == SortByRange(fixes)
        start == sorted[1].range[1]
        end == sorted[Len(sorted)].range[2]
        after == ApplySorted(text, sorted)
    IN  [range |-> <<start, end>>,
         text |-> SubSeq(after, start + 1, Len(after) - (Len(text) - end))]

\* The merged fixes a pass applies: in order of range, those that start
\* after the end of the one applied before
RECURSIVE Applicable(_, _)
Applicable(sorted, lastPos) ==
    IF sorted = <<>> THEN <<>>
    ELSE IF lastPos >= Head(sorted).range[1]
    THEN Applicable(Tail(sorted), lastPos)
    ELSE <<Head(sorted)>> \o Applicable(Tail(sorted), Head(sorted).range[2])
FixPass(text, ds) ==
    LET fixable == Filter(ds, {d \in Elements(ds) :
                                  TextEdits(FixesOf(d)) # <<>>})
        merged == [i \in DOMAIN fixable |->
                      MergedFix(text, TextEdits(FixesOf(fixable[i])))]
    IN  ApplySorted(text, Applicable(SortByRange(merged), -1))

\* The text after at most `passes` passes of lint-and-fix
RECURSIVE FixLoop(_, _, _)
FixLoop(text, references, passes) ==
    LET fixed == FixPass(text, TypeImportsLint(Parse(text, references))) IN
    IF passes = 0 \/ fixed = text THEN text
    ELSE FixLoop(fixed, references, passes - 1)

\* ---------------------------------------------------------------- C14
TypeImportsMessages ==
    {"typeOverValue", "aImportIsOnlyTypes", "someImportsAreOnlyTypes"}
ProgramText == TextOfNodes(program)
FixedText == FixLoop(ProgramText, ReferencesOf(program), 10)
Relinted == TypeImportsLint(Parse(FixedText, ReferencesOf(program)))

\* C14: under `type-imports`, once the fixes of all diagnostics are applied
\* to the text of the program, the strategy run on the text that results
\* reports no typeOverValue, aImportIsOnlyTypes or someImportsAreOnlyTypes.
C14_FixedTextIsStable ==
    (pc = "done" /\ prefer = "type-imports")
        => \A d \in Elements(Relinted) : d.messageId \notin TypeImportsMessages

\* a declaration with a type-only default import and a type-only named
\* import beside a value import, after a type-only named import of the
\* module: its fix moves both, and the fixed text differs
C14_Witness ==
    /\ pc = "done"
    /\ prefer = "type-imports"
    /\ \E d \in Elements(diagnostics) :
          /\ d.messageId = "someImportsAreOnlyTypes"
          /\ Len(TextEdits(FixesOf(d))) >= 4
          /\ \E e \in Elements(TextEdits(FixesOf(d))) :
                e.range[2] < d.node.range[1]
    /\ FixedText # ProgramText
    /\ Relinted = <<>>

\* ---------------------------------------------------------------- C15
DuplicateDiagnostics ==
    {d \in Elements(diagnostics) : d.messageId = "duplicateTypeImports"}

\* C15: under `type-imports-combine`, once Program:exit has run, in a group
\* whose specifiers are all type-only every type-only declaration after the
\* first of its kind is reported as duplicateTypeImports; the fix of such a
\* diagnostic yields no text edit when the kind of its declaration is
\* default or namespace, and yields edits when the kind is named.
C15_OnlyNamedDuplicatesAreMerged ==
    (prefer = "type-imports-combine" /\ pc = "done") =>
        /\ \A source \in Sources :
              LET group == GroupOf(source) IN
              (\A x \in SpecifiersOfGroup(group) : IsTypeOnly(x)) =>
                  \A j \in DOMAIN group :
                      (/\ group[j].importKind = "type"
                       /\ EarlierOfKind(group, j) # <<>>)
                          => \E d \in DuplicateDiagnostics : d.node = group[j]
        /\ \A d \in DuplicateDiagnostics :
              IF KindOf(d.node) = "named"
              THEN TextEdits(FixesOf(d)) # <<>>
              ELSE FixesOf(d) = <<>>

\* a second type-only import of a default binding, with a named import
\* beside it: reported, and its fix yields nothing
C15_Witness ==
    /\ prefer = "type-imports-combine"
    /\ pc = "done"
    /\ \E d \in DuplicateDiagnostics :
          /\ KindOf(d.node) = "default"
          /\ HasSpecifier(d.node, "ImportSpecifier")
          /\ FixesOf(d) = <<>>

\* ---------------------------------------------------------------- C16
\* The `meta` properties of an object expression whose value is an object
\* literal, and its `create` properties whose value is a function with an
\* identifier as first parameter
MetaLiterals(node) ==
    {p \in Elements(node.properties) :
        /\ p.type = "Property"
        /\ IsNamed(p, "meta")
        /\ p.value.type = "ObjectExpression"}
CreateFunctions(node) ==
    {p \in Elements(node.properties) :
        /\ p.type = "Property"
        /\ IsNamed(p, "create")
        /\ p.value.type \in {"FunctionExpression", "ArrowFunctionExpression"}
        /\ Len(p.value.params) >= 1
        /\ p.value.params[1].type = "Identifier"}
HasRuleShape(node) == MetaLiterals(node) # {} /\ CreateFunctions(node) # {}
RuleObjectOf(node) ==
    [meta |-> (CHOOSE p \in MetaLiterals(node) : TRUE).value,
     context |-> (CHOOSE p \in CreateFunctions(node) : TRUE).value.params[1],
     report |-> EmptyReport]

\* C16: whatever object expression is visited next, the visit leaves a rule
\* object that exists as it is (meta, context and findings); with none yet,
\* it creates the rule object of the expression, with empty findings, when
\* the expression has the {meta, create} shape, and creates none otherwise.
C16_FirstRuleShapeWins ==
    pc = "traverse" =>
        \A node \in ObjectInputs(NextLoc) :
            ObjectExpressionHandler(ruleObject, node) =
                IF ruleObject # null THEN ruleObject
                ELSE IF HasRuleShape(node) THEN RuleObjectOf(node)
                ELSE null

\* a rule object with findings, made by the second object expression
\* visited, before a visit that may meet another {meta, create} literal
C16_Witness ==
    /\ pc = "traverse"
    /\ visited = <<"ObjectExpression", "ObjectExpression", "CallExpression">>
    /\ ruleObject # null
    /\ ruleObject.meta.properties # <<>>
    /\ ruleObject.meta.properties[1].loc[1] = 2
    /\ ruleObject.report.found
    /\ ruleObject.report.fixNodes # <<>>
    /\ \E node \in ObjectInputs(NextLoc) :
          HasRuleShape(node) /\ RuleObjectOf(node).meta # ruleObject.meta

\* ---------------------------------------------------------------- C17
\* The call is `<identifier>.report(<one argument>)`, the identifier being
\* the variable the create function's first parameter declares
IsReportSite(ro, node) ==
    /\ ro # null
    /\ node.callee.type = "MemberExpression"
    /\ ~node.callee.computed
    /\ node.callee.object.type = "Identifier"
    /\ node.callee.property = Identifier("report", node.callee.property.loc)
    /\ Len(node.arguments) = 1
    /\ findVariable(node.callee.object) # null
    /\ \E def \in Elements(findVariable(node.callee.object).defs) :
           def.name = ro.context

\* The keys of the properties called `name` of the logical property
\* sequence of the argument of a call, in order
DescriptorKeys(node, name) ==
    LET logical == IF node.arguments[1].type = "ObjectExpression"
                   THEN iterateProperties(node.arguments[1]) ELSE <<>>
        named == Filter(logical, {p \in Elements(logical) :
                                     p.type = "Property" /\ IsNamed(p, name)})
    IN  [i \in DOMAIN named |-> named[i].key]

\* What C17 says of the visit of `node` that turns `before` into `after`
FindingsFollowReportSite(before, node, after) ==
    IF ~IsReportSite(before, node) THEN after = before
    ELSE /\ after.meta = before.meta
         /\ after.context = before.context
         /\ after.report.found
         /\ after.report.fixNodes =
                before.report.fixNodes \o DescriptorKeys(node, "fix")
         /\ after.report.suggestNodes =
                before.report.suggestNodes \o DescriptorKeys(node, "suggest")

\* C17: whatever call expression is visited next, the visit changes nothing
\* unless a rule object exists and the call is `<identifier>.report(arg)` on
\* the context parameter's variable; then found is true afterwards and the
\* keys of the `fix` / `suggest` properties of the descriptor's logical
\* property sequence are appended to fixNodes / suggestNodes in order.
C17_OnlyReportSitesChangeFindings ==
    pc = "traverse" =>
        \A node \in CallInputs(NextLoc) :
            FindingsFollowReportSite(
                ruleObject, node, CallExpressionHandler(ruleObject, node))

\* ---------------------------------------------------------------- C18
\* The identifier's binding has exactly one definition, declared with
\* `const`, with an initializer
IsInitialisedConst(node) ==
    /\ node.type = "Identifier"
    /\ findVariable(node) # null
    /\ LET defs == findVariable(node).defs IN
       /\ Len(defs) = 1
       /\ defs[1].type = "Variable"
       /\ defs[1].parent.kind = "const"
       /\ defs[1].node.init # null
RECURSIVE Flattening(_)
Flattening(node) ==
    IF IsInitialisedConst(node)
    THEN Flattening(findVariable(node).defs[1].node.init)
    ELSE IF node.type = "ConditionalExpression"
    THEN Flattening(node.consequent) \o Flattening(node.alternate)
    ELSE <<node>>

\* C18: when flattenExpressions(expression) has returned, it has yielded,
\* for an identifier of an initialised const, the flattening of the
\* initializer and not the identifier; for a conditional expression, the
\* flattening of the consequent then that of the alternate; for any other
\* node, the node.
C18_FlattenResult ==
    pc = "done" =>
        /\ yielded = Flattening(expression)
        /\ IsInitialisedConst(expression)
               => expression \notin Elements(yielded)
        /\ (~IsInitialisedConst(expression)
            /\ expression.type # "ConditionalExpression")
               => yielded = <<expression>>

\* `c ? alias : letMeta`: the const alias of a const gives the object
\* literal two initializers away, the let binding gives itself
C18_Witness ==
    /\ pc = "done"
    /\ expression.type = "ConditionalExpression"
    /\ expression.consequent.type = "Identifier"
    /\ expression.consequent.name = "alias"
    /\ expression.alternate.type = "Identifier"
    /\ expression.alternate.name = "letMeta"
    /\ yielded = <<ScopeVariables.fixableMeta.defs[1].node.init,
                   expression.alternate>>

\* ---------------------------------------------------------------- C19
\* The identifier is bound by a pattern, or by a declarator of a
\* declaration that has several
IsPatternOrSharedBinding(node) ==
    /\ node.type = "Identifier"
    /\ findVariable(node) # null
    /\ \E def \in Elements(findVariable(node).defs) :
          /\ def.type = "Variable"
          /\ \/ def.node.id.type # "Identifier"
             \/ def.parent.declarators > 1

\* C19: when flattenExpressions has returned for an identifier bound by a
\* destructuring pattern or by a declaration with several declarators, it
\* has yielded the identifier and nothing else.
C19_NoRecursionThroughPatterns ==
    (pc = "done" /\ IsPatternOrSharedBinding(expression))
        => yielded = <<expression>>

\* ---------------------------------------------------------------- C20
\* C20: every call of flattenExpressions returns: no chain of initializers
\* goes on until the stack is full.
C20_FlattenTerminates == <>(pc = "done")

\* ---------------------------------------------------------------- C21
\* What C21 says iterateProperties yields for an object literal
RECURSIVE IterationOf(_)
IterationOf(node) ==
    Concat([i \in DOMAIN node.properties |->
        LET prop == node.properties[i] IN
        IF prop.type # "SpreadElement" THEN <<prop>>
        ELSE LET candidates == Flattening(prop.argument)
                 literals == Filter(candidates,
                     {c \in Elements(candidates) :
                         c.type = "ObjectExpression"})
             IN  Concat([j \in DOMAIN literals |-> IterationOf(literals[j])])
                 \o (IF Len(literals) < Len(candidates) THEN <<prop>>
                     ELSE <<>>)])

\* C21: iterateProperties yields the ordinary properties in source order
\* and, for a spread, the properties of the object literals its argument
\* flattens to, followed by the spread itself, once, iff some candidate of
\* the flattening is not an object literal.
C21_IterationOrder ==
    pc = "done" =>
        /\ yielded = IterationOf(expression)
        /\ \A prop \in Elements(expression.properties) :
              Occurrences(yielded, prop) =
                  IF prop.type # "SpreadElement" THEN 1
                  ELSE IF \E c \in Elements(Flattening(prop.argument)) :
                              c.type # "ObjectExpression"
                  THEN 1 ELSE 0

\* `{ ...(c ? ruleMeta : importedMeta), ...maybeMeta }`: two candidates
\* that are no object literals give the first spread once; the second
\* spread follows the property of its object-literal branch
C21_Witness ==
    /\ pc = "done"
    /\ Len(expression.properties) = 2
    /\ expression.properties[1].type = "SpreadElement"
    /\ expression.properties[1].argument.type = "ConditionalExpression"
    /\ expression.properties[2].type = "SpreadElement"
    /\ expression.properties[2].argument.type = "Identifier"
    /\ expression.properties[2].argument.name = "maybeMeta"
    /\ Len(yielded) = 3
    /\ yielded[1] = expression.properties[1]
    /\ yielded[2].type = "Property"
    /\ yielded[3] = expression.properties[2]

\* ---------------------------------------------------------------- C22
\* The ancestors of the reference's identifier, walking upward, are
\* qualified names until a type query is reached
WalkReachesTypeQuery(ref) ==
    \E k \in DOMAIN ref.parents :
        /\ ref.parents[k] = "TSTypeQuery"
        /\ \A j \in 1..(k - 1) : ref.parents[j] = "TSQualifiedName"

\* Type-safe as C22 words it: a type reference, or a value reference whose
\* walk reaches a type query
TypeSafeAsWorded(ref) ==
    \/ ref.isTypeReference
    \/ ref.isValueReference /\ WalkReachesTypeQuery(ref)
\* Type-safe, a value reference being judged by its walk alone
TypeSafeValueFirst(ref) ==
    IF ref.isValueReference THEN WalkReachesTypeQuery(ref)
    ELSE ref.isTypeReference

\* The bucket each specifier of the declaration is in, given which of its
\* references are type-safe
BucketOf(specifier) ==
    IF specifier \in Elements(used.unusedSpecifiers) THEN "unused"
    ELSE IF specifier \in Elements(used.typeSpecifiers) THEN "type-only"
    ELSE "value-using"
ReferencesOfSpecifier(specifier) == Elements(specifier.variable.references)

\* C22 as worded: a specifier is unused iff its binding has no reference,
\* type-only iff it has one and every reference is a type reference or a
\* value reference whose ancestors are qualified names up to a type query,
\* and value-using otherwise.
C22_ClassificationAsWorded ==
    Classified =>
        \A x \in Elements(declaration.specifiers) :
            BucketOf(x) =
                IF ReferencesOfSpecifier(x) = {} THEN "unused"
                ELSE IF \A r \in ReferencesOfSpecifier(x) : TypeSafeAsWorded(r)
                THEN "type-only"
                ELSE "value-using"

\* C22, amended: the same, a reference being type-safe iff it is a value
\* reference whose ancestors are qualified names up to a type query, or it
\* is a type reference that is not also a value reference.
C22_Classification ==
    Classified =>
        \A x \in Elements(declaration.specifiers) :
            BucketOf(x) =
                IF ReferencesOfSpecifier(x) = {} THEN "unused"
                ELSE IF \A r \in ReferencesOfSpecifier(x) :
                            TypeSafeValueFirst(r)
                THEN "type-only"
                ELSE "value-using"

\* one declaration with a binding used in a type and under `typeof a.b`
\* (type-only), one exported as value and type (value-using), one unused
C22_Witness ==
    /\ Classified
    /\ \E x \in Elements(used.typeSpecifiers) :
          x.variable.references =
              <<TypeReference, QualifiedTypeQueryReference>>
    /\ \E x \in Elements(used.valueSpecifiers) :
          x.variable.references = <<DualReference>>
    /\ used.unusedSpecifiers # <<>>


-----------------------------------------------------------------------------
\* The type-only declarations of named specifiers only that the traversal has
\* visited for one module source, in visiting order.
IsTypeOnlyNamedDeclaration(node, source) ==
    /\ node.type = "ImportDeclaration"
    /\ node.source.value = source
    /\ node.importKind = "type"
    /\ \A j \in DOMAIN node.specifiers : isNamedSpecifier(node.specifiers[j])

TypeOnlyNamedVisits(source) ==
    {i \in DOMAIN program : IsTypeOnlyNamedDeclaration(program[i], source)}

FirstTypeOnlyNamedVisit(source) ==
    IF TypeOnlyNamedVisits(source) = {} THEN null
    ELSE program[CHOOSE i \in TypeOnlyNamedVisits(source) :
                     \A j \in TypeOnlyNamedVisits(source) : i <= j]

\* sourceImportsMap[source]?.typeOnlyNamedImport as the visitor reads it
TypeOnlyNamedImportAt(source) ==
    IF source \in InheritedKeys THEN inherited.typeOnlyNamedImport
    ELSE IF HasSource(sourceImportsMap, source)
    THEN sourceImportsMap[SourceIndex(sourceImportsMap, source)]
             .typeOnlyNamedImport
    ELSE null

\* C23: under `type-imports`, the typeOnlyNamedImport of each module source is
\* at every moment of the traversal the first visited type-only declaration
\* of that source all of whose specifiers are named (nothing before one is
\* visited): later declarations of the source and declarations of other
\* sources leave it as it is.
C23_FirstTypeOnlyNamedImportStays ==
    prefer = "type-imports" =>
        \A source \in SourceChoices(prefer) :
            TypeOnlyNamedImportAt(source) = FirstTypeOnlyNamedVisit(source)

\* Two type-only declarations of named specifiers of one source were visited,
\* and the first is the one recorded.
C23_Witness ==
    /\ prefer = "type-imports"
    /\ Cardinality(TypeOnlyNamedVisits("m1")) >= 2
    /\ TypeOnlyNamedImportAt("m1") = program[1]
    /\ program[2] # program[1]


-----------------------------------------------------------------------------
\* The step visits an import declaration that has no specifiers
\* (`import 'm'`, `import {} from 'm'`, `import type {} from 'm'`).
VisitsZeroSpecifierDeclaration ==
    /\ Len(program') = Len(program) + 1
    /\ program'[Len(program')].type = "ImportDeclaration"
    /\ program'[Len(program')].specifiers = <<>>

\* The reports collected for a source; a source without a record has none.
ReportValueImportsOf(map, source) ==
    IF HasSource(map, source)
    THEN map[SourceIndex(map, source)].reportValueImports
    ELSE <<>>

\* C24: under `type-imports`, visiting a declaration with zero specifiers
\* leaves the reports collected for every source and the insertion target of
\* every source as they were, and adds no diagnostic.
C24_ZeroSpecifierDeclarationIgnored ==
    [][(prefer = "type-imports" /\ VisitsZeroSpecifierDeclaration) =>
          /\ diagnostics' = diagnostics
          /\ \A source \in SourceChoices(prefer) :
                /\ ReportValueImportsOf(sourceImportsMap', source)
                       = ReportValueImportsOf(sourceImportsMap, source)
                /\ TypeOnlyNamedImportAt(source)'
                       = TypeOnlyNamedImportAt(source)]_vars


-----------------------------------------------------------------------------
\* The named specifiers of the declaration, the positions of the type-only
\* ones, and the positions where a maximal run of type-only ones begins.
NamedOfDeclaration == NamedSpecifiersOf(declaration)
TypeOnlyPositions ==
    {i \in DOMAIN NamedOfDeclaration : IsTypeOnly(NamedOfDeclaration[i])}
RunStarts == {i \in TypeOnlyPositions : (i - 1) \notin TypeOnlyPositions}
SameRun(i, j) ==
    \A k \in DOMAIN NamedOfDeclaration :
        (i <= k /\ k <= j) \/ (j <= k /\ k <= i) => k \in TypeOnlyPositions
PartialExtraction ==
    /\ pc = "done"
    /\ declaration # null
    /\ TypeOnlyPositions # {}
    /\ TypeOnlyPositions # DOMAIN NamedOfDeclaration
Covers(fix, specifier) ==
    fix.range[1] <= specifier.range[1] /\ specifier.range[2] <= fix.range[2]
Touches(fix, specifier) ==
    fix.range[1] < specifier.range[2] /\ specifier.range[1] < fix.range[2]

\* The values of the tokens of the declaration once the removals are made,
\* and of the declaration written with the other named specifiers only
ValuesOf(tokens) == [i \in DOMAIN tokens |-> tokens[i].value]
AfterRemovals ==
    ValuesOf(Lex(ApplySorted(TextOf(declaration), SortByRange(yielded))))
RECURSIVE CommaSeparated(_)
CommaSeparated(names) ==
    IF names = <<>> THEN <<>>
    ELSE IF Len(names) = 1 THEN names
    ELSE <<Head(names), ",">> \o CommaSeparated(Tail(names))
KeptNames ==
    LET kept == Filter(NamedOfDeclaration,
                       {NamedOfDeclaration[i] :
                           i \in DOMAIN NamedOfDeclaration \ TypeOnlyPositions})
    IN  [i \in DOMAIN kept |-> kept[i].local.name]
WrittenWithKept ==
    (IF DefaultSpecifierOf(declaration) = null THEN <<"import", "{">>
     ELSE <<"import", DefaultSpecifierOf(declaration).local.name, ",", "{">>)
    \o CommaSeparated(KeptNames)
    \o <<"}", "from", "'m1'", ";">>

\* C25: when some but not all named specifiers are type-only,
\* getFixesNamedSpecifiers gives one removal per maximal run of type-only
\* specifiers; a removal covers the specifiers of one run and touches no
\* other specifier; and with the removals made the braces hold the other
\* specifiers separated by single commas, none leading or trailing.
C25_OneRemovalPerRun ==
    PartialExtraction =>
        /\ Len(yielded) = Cardinality(RunStarts)
        /\ \A i \in TypeOnlyPositions :
              \E k \in DOMAIN yielded :
                  /\ Covers(yielded[k], NamedOfDeclaration[i])
                  /\ \A j \in DOMAIN NamedOfDeclaration :
                        Covers(yielded[k], NamedOfDeclaration[j])
                            <=> (j \in TypeOnlyPositions /\ SameRun(i, j))
        /\ \A k \in DOMAIN yielded :
              \A j \in DOMAIN NamedOfDeclaration \ TypeOnlyPositions :
                  ~Touches(yielded[k], NamedOfDeclaration[j])
        /\ AfterRemovals = WrittenWithKept

\* `import { A, B, C, D } from 'm1'` with type-only runs at the start and at
\* the end of the list: two removals
C25_Witness ==
    /\ PartialExtraction
    /\ Len(NamedOfDeclaration) = MaxExtractNamed
    /\ 1 \in TypeOnlyPositions
    /\ Len(NamedOfDeclaration) \in TypeOnlyPositions
    /\ Len(yielded) = 2


-----------------------------------------------------------------------------
\* The call is over: the generator returned or threw.
CombineCallIsOver == pc \in {"done", "crashed"} /\ Len(program) = 2
\* node has a namespace import to move behind the default import of toNode,
\* and toNode has no default import.
TargetDefaultIsMissing ==
    /\ NamespaceSpecifierOf(declaration) # null
    /\ DefaultSpecifierOf(program[1]) = null

-----------------------------------------------------------------------------
\* The number of diagnostics with a message
CountOf(messageId) == Len(WithIds(diagnostics, {messageId}))

\* C27: in one traversal valid-rule-meta never reports both shouldBeFixable
\* and shouldNotBeFixable, never both shouldBeSuggestable and
\* shouldNotBeSuggestable, and each of the two negative messages at most
\* once.
C27_NoContradictingDiagnostics ==
    /\ ~(CountOf("shouldBeFixable") > 0 /\ CountOf("shouldNotBeFixable") > 0)
    /\ ~(/\ CountOf("shouldBeSuggestable") > 0
         /\ CountOf("shouldNotBeSuggestable") > 0)
    /\ CountOf("shouldNotBeFixable") <= 1
    /\ CountOf("shouldNotBeSuggestable") <= 1

\* A rule whose report calls give fixes and no suggestions while meta sets
\* hasSuggestions and no `fixable`: one negative diagnostic beside positive
\* ones of the other half
C27_Witness ==
    /\ pc = "done"
    /\ ruleObject # null
    /\ CountOf("shouldBeFixable") > 0
    /\ CountOf("shouldNotBeSuggestable") = 1


-----------------------------------------------------------------------------
\* The logical property sequence of meta, and the positions in it of the
\* properties called `name`.
LogicalProperties == iterateProperties(ruleObject.meta)
PositionsNamed(name) ==
    {i \in DOMAIN LogicalProperties :
        /\ LogicalProperties[i].type = "Property"
        /\ IsNamed(LogicalProperties[i], name)}
IsEarlier(i, name) ==
    i \in PositionsNamed(name) /\ \E j \in PositionsNamed(name) : i < j

\* The sequence without the `fixable` and `hasSuggestions` properties that
\* a later one of the same name follows, written as an object literal
\* (a spread that stayed in the sequence is written as a spread of an
\* undeclared name, which iteration leaves as it is).
WithoutEarlier ==
    LET kept == {i \in DOMAIN LogicalProperties :
                    ~IsEarlier(i, "fixable") /\ ~IsEarlier(i, "hasSuggestions")}
        Nth(k) == CHOOSE i \in kept : Cardinality({j \in kept : j < i}) = k - 1
        Written(element) ==
            IF element.type = "SpreadElement"
            THEN SpreadElement(Identifier("ruleMeta", element.loc), element.loc)
            ELSE element
    IN  ObjectExpression([k \in 1..Cardinality(kept) |->
                             Written(LogicalProperties[Nth(k)])])

\* C28: of several `fixable` or several `hasSuggestions` properties in the
\* logical property sequence of meta only the last counts: the diagnostics
\* are those of the rule whose meta has the earlier ones taken out.
C28_OnlyLastPropertyCounts ==
    (pc = "done" /\ ruleObject # null) =>
        diagnostics = ProgramExitDiagnostics(
                          [ruleObject EXCEPT !.meta = WithoutEarlier])

\* meta is `{ ...(c ? { fixable: 'code' } : { fixable: null }) }` and a
\* report call gives a fix: the last `fixable` is null and shouldBeFixable
\* is reported although a string value precedes it.
C28_Witness ==
    /\ pc = "done"
    /\ ruleObject # null
    /\ Len(ruleObject.meta.properties) = 1
    /\ ruleObject.meta.properties[1].type = "SpreadElement"
    /\ Cardinality(PositionsNamed("fixable")) = 2
    /\ CountOf("shouldBeFixable") > 0


-----------------------------------------------------------------------------
\* The diagnostics of `type-imports-combine` whose fix merges the reported
\* declaration into another one
MergeDiagnostics ==
    {d \in Elements(diagnostics) :
        /\ d.messageId \in {"mustBeOneImport", "duplicateTypeImports"}
        /\ "fix" \in DOMAIN d
        /\ d.fix.generator = "fixCombinImports"}

\* C29: under `type-imports-combine` the merge target of every
\* mustBeOneImport and duplicateTypeImports diagnostic is a declaration
\* other than the reported one.
C29_MergeTargetIsAnotherDeclaration ==
    \A d \in MergeDiagnostics : d.fix.toNode # d.node


-----------------------------------------------------------------------------
\* The options are one composite object that has `paths` or `patterns`.
CompositeObject == options[1]
OptionsAreComposite ==
    /\ Len(options) = 1
    /\ options[1].typeof = "object"
    /\ In("paths", options[1]) \/ In("patterns", options[1])
PathsWritten == GetOr(CompositeObject, "paths", <<>>)
PatternsWritten == GetOr(CompositeObject, "patterns", <<>>)
ObjectPatternsWritten ==
    {i \in DOMAIN PatternsWritten : PatternsWritten[i].typeof = "object"}
StringPatternsWritten ==
    {i \in DOMAIN PatternsWritten : PatternsWritten[i].typeof = "string"}
NameOf(pathOption) ==
    IF pathOption.typeof = "string" THEN pathOption
    ELSE pathOption.props["name"]

\* C30: parseOptions on a composite option object with `paths`, with
\* `patterns` or with both: the restricted paths are the entries of `paths`,
\* one for one with their names, and the pattern groups are those of
\* `patterns` (one for each object pattern, one for the string patterns
\* together).
C30_CompositeOptionIsTakenApart ==
    (pc = "done" /\ OptionsAreComposite) =>
        /\ Len(restrictedPaths) = Len(PathsWritten)
        /\ \A i \in DOMAIN PathsWritten :
              restrictedPaths[i].name = NameOf(PathsWritten[i])
        /\ Len(restrictedPatternGroups) =
              Cardinality(ObjectPatternsWritten)
              + (IF StringPatternsWritten # {} THEN 1 ELSE 0)

====
